---- MODULE Spec2Model ----
(***************************************************************************)
(* The agent protocol engine of agent_answer_bot:                          *)
(*   - schema.py : validate_action, the action protocol normalizer         *)
(*   - agent.py  : execute_action (tool dispatcher) and run_agent (turn    *)
(*                 controller)                                             *)
(* A text is a TLA+ string; the character algorithms work on the sequence  *)
(* of its one-character strings (Chars) and give a string back (Join).     *)
(***************************************************************************)
EXTENDS Integers, Sequences, FiniteSets, TLC

(***************************************************************************)
(* Text primitives (Python str methods used by the source)                 *)
(***************************************************************************)

\* the characters of a text, in order
Chars(s) == [i \in 1..Len(s) |-> SubSeq(s, i, i)]

RECURSIVE Join(_)
\* ''.join(cs), by halves
Join(cs) ==
  IF Len(cs) = 0 THEN ""
  ELSE IF Len(cs) = 1 THEN cs[1]
  ELSE LET h == Len(cs) \div 2
       IN  Join(SubSeq(cs, 1, h)) \o Join(SubSeq(cs, h + 1, Len(cs)))

\* the whitespace json.loads skips between tokens
Whitespace == {" ", "\n", "\t", "\r"}

\* the whitespace str.strip() removes and the regex class \s matches
StripChars == Whitespace \cup {"\f"}

\* the least index >= from whose character is in (in = TRUE) or not in
\* (in = FALSE) the set chars; Len + 1 when there is none
NextIndex(cs, from, chars, in) ==
  IF \E i \in from..Len(cs) : (cs[i] \in chars) = in
    THEN CHOOSE i \in from..Len(cs) :
           /\ (cs[i] \in chars) = in
           /\ \A j \in from..(i - 1) : (cs[j] \in chars) # in
    ELSE Len(cs) + 1

\* str.strip() on a character sequence
Strip(cs) ==
  LET first == NextIndex(cs, 1, StripChars, FALSE)
      last == IF first > Len(cs) THEN 0
              ELSE CHOOSE i \in first..Len(cs) :
                     /\ cs[i] \notin StripChars
                     /\ \A j \in (i + 1)..Len(cs) : cs[j] \in StripChars
  IN  SubSeq(cs, first, last)

\* cs[i:] starts with the characters of the text p (i is a 1-based index)
StartsWithAt(cs, i, p) ==
  /\ i + Len(p) - 1 <= Len(cs)
  /\ \A k \in 1..Len(p) : cs[i + k - 1] = SubSeq(p, k, k)

LowerLetters == Chars("abcdefghijklmnopqrstuvwxyz")
UpperLetters == Chars("ABCDEFGHIJKLMNOPQRSTUVWXYZ")

\* str.upper() on one character
UpperChar(c) ==
  IF \E k \in 1..26 : LowerLetters[k] = c
    THEN UpperLetters[CHOOSE k \in 1..26 : LowerLetters[k] = c]
    ELSE c

\* str.upper() on a character sequence
Upper(cs) == [i \in 1..Len(cs) |-> UpperChar(cs[i])]

\* str.find(c, from): the least index >= from holding c, 0 when there is none
FindChar(cs, c, from) ==
  LET i == NextIndex(cs, from, {c}, TRUE) IN IF i > Len(cs) THEN 0 ELSE i

\* the least index >= from where the text p starts, 0 when there is none
FindText(cs, p, from) ==
  IF \E i \in from..Len(cs) : StartsWithAt(cs, i, p)
    THEN CHOOSE i \in from..Len(cs) :
           StartsWithAt(cs, i, p) /\ \A j \in from..(i - 1) : ~StartsWithAt(cs, j, p)
    ELSE 0

(***************************************************************************)
(* json.loads (strict), restricted to the characters that occur in the     *)
(* modelled texts: objects, arrays, strings with the escapes \" \\ \/ \n   *)
(* \t \r \f, integers, true, false, null.  \b, \uXXXX, fractions,          *)
(* exponents, NaN and Infinity do not occur in any modelled text.          *)
(* A JSON value is [t |-> type tag, v |-> payload].                        *)
(***************************************************************************)

JStr(s) == [t |-> "str", v |-> s]
JInt(n) == [t |-> "int", v |-> n]
JBool(b) == [t |-> "bool", v |-> b]
JNull == [t |-> "null", v |-> "null"]
JArr(items) == [t |-> "arr", v |-> items]
\* an object is the sequence of its members [k |-> key text, val |-> value]
JObj(members) == [t |-> "obj", v |-> members]

\* the outcome of a failed parse (JSONDecodeError) and of a successful one
ParseFail == [ok |-> FALSE, val |-> JNull, pos |-> 0]
ParseOk(val, pos) == [ok |-> TRUE, val |-> val, pos |-> pos]

Digits == Chars("0123456789")
IsDigit(c) == \E k \in 1..10 : Digits[k] = c
DigitVal(c) == (CHOOSE k \in 1..10 : Digits[k] = c) - 1

\* the character a backslash escape stands for
EscapeChars == {"\"", "\\", "/", "n", "t", "r", "f"}
Unescape(e) ==
  CASE e = "n" -> "\n"
    [] e = "t" -> "\t"
    [] e = "r" -> "\r"
    [] e = "f" -> "\f"
    [] OTHER -> e

\* control characters json.loads rejects inside a string
ControlChars == {"\n", "\t", "\r", "\f"}

\* the least index >= i that holds no whitespace (Len + 1 at the end)
SkipWs(cs, i) == NextIndex(cs, i, Whitespace, FALSE)

\* dict[key] = val: a repeated key keeps its place and takes the last value
DictPut(members, key, val) ==
  IF \E j \in 1..Len(members) : members[j].k = key
    THEN [j \in 1..Len(members) |->
            IF members[j].k = key THEN [k |-> key, val |-> val] ELSE members[j]]
    ELSE Append(members, [k |-> key, val |-> val])

RECURSIVE ParseString(_, _, _)
\* the string whose opening quote is just before index i (scanstring): the run
\* of plain characters up to the next quote, backslash or control character is
\* taken in one step
ParseString(cs, i, acc) ==
  LET j == NextIndex(cs, i, {"\"", "\\"} \cup ControlChars, TRUE)
      chunk == acc \o SubSeq(cs, i, j - 1)
  IN  IF j > Len(cs) THEN ParseFail
      ELSE IF cs[j] = "\"" THEN ParseOk(JStr(Join(chunk)), j + 1)
      ELSE IF cs[j] = "\\" THEN
        IF j + 1 <= Len(cs) /\ cs[j + 1] \in EscapeChars
          THEN ParseString(cs, j + 2, Append(chunk, Unescape(cs[j + 1])))
          ELSE ParseFail
      ELSE ParseFail

RECURSIVE ParseDigits(_, _, _)
\* the digits from index i on, folded into n
ParseDigits(cs, i, n) ==
  IF i <= Len(cs) /\ IsDigit(cs[i])
    THEN ParseDigits(cs, i + 1, 10 * n + DigitVal(cs[i]))
    ELSE ParseOk(JInt(n), i)

\* -?(0|[1-9][0-9]*) at index i
ParseNumber(cs, i) ==
  LET neg == cs[i] = "-"
      d == IF neg THEN i + 1 ELSE i
  IN  IF d > Len(cs) \/ ~IsDigit(cs[d]) THEN ParseFail
      ELSE LET r == IF cs[d] = "0" THEN ParseOk(JInt(0), d + 1)
                                   ELSE ParseDigits(cs, d, 0)
           IN  IF neg THEN ParseOk(JInt(0 - r.val.v), r.pos) ELSE r

RECURSIVE ParseValue(_, _)
RECURSIVE ParseMembers(_, _, _)
RECURSIVE ParseItems(_, _, _)

\* the value that starts at index i (scan_once)
ParseValue(cs, i) ==
  IF i > Len(cs) THEN ParseFail
  ELSE IF cs[i] = "\"" THEN ParseString(cs, i + 1, <<>>)
  ELSE IF cs[i] = "{" THEN
    LET j == SkipWs(cs, i + 1)
    IN  IF j > Len(cs) THEN ParseFail
        ELSE IF cs[j] = "}" THEN ParseOk(JObj(<<>>), j + 1)
        ELSE ParseMembers(cs, j, <<>>)
  ELSE IF cs[i] = "[" THEN
    LET j == SkipWs(cs, i + 1)
    IN  IF j > Len(cs) THEN ParseFail
        ELSE IF cs[j] = "]" THEN ParseOk(JArr(<<>>), j + 1)
        ELSE ParseItems(cs, j, <<>>)
  ELSE IF StartsWithAt(cs, i, "true") THEN ParseOk(JBool(TRUE), i + 4)
  ELSE IF StartsWithAt(cs, i, "false") THEN ParseOk(JBool(FALSE), i + 5)
  ELSE IF StartsWithAt(cs, i, "null") THEN ParseOk(JNull, i + 4)
  ELSE IF cs[i] = "-" \/ IsDigit(cs[i]) THEN ParseNumber(cs, i)
  ELSE ParseFail

\* the members of an object from the key at index i on (JSONObject)
ParseMembers(cs, i, acc) ==
  IF i > Len(cs) \/ cs[i] # "\"" THEN ParseFail
  ELSE
    LET key == ParseString(cs, i + 1, <<>>)
    IN  IF ~key.ok THEN ParseFail
        ELSE
          LET c == SkipWs(cs, key.pos)
          IN  IF c > Len(cs) \/ cs[c] # ":" THEN ParseFail
              ELSE
                LET val == ParseValue(cs, SkipWs(cs, c + 1))
                IN  IF ~val.ok THEN ParseFail
                    ELSE
                      LET e == SkipWs(cs, val.pos)
                          members == DictPut(acc, key.val.v, val.val)
                      IN  IF e > Len(cs) THEN ParseFail
                          ELSE IF cs[e] = "}" THEN ParseOk(JObj(members), e + 1)
                          ELSE IF cs[e] = ","
                            THEN ParseMembers(cs, SkipWs(cs, e + 1), members)
                          ELSE ParseFail

\* the items of an array from the value at index i on (JSONArray)
ParseItems(cs, i, acc) ==
  LET val == ParseValue(cs, i)
  IN  IF ~val.ok THEN ParseFail
      ELSE
        LET e == SkipWs(cs, val.pos)
            items == Append(acc, val.val)
        IN  IF e > Len(cs) THEN ParseFail
            ELSE IF cs[e] = "]" THEN ParseOk(JArr(items), e + 1)
            ELSE IF cs[e] = "," THEN ParseItems(cs, SkipWs(cs, e + 1), items)
            ELSE ParseFail

\* json.loads(cs): one value, whitespace around it, nothing after it
json_loads(cs) ==
  LET r == ParseValue(cs, SkipWs(cs, 1))
  IN  IF r.ok /\ SkipWs(cs, r.pos) = Len(cs) + 1 THEN r ELSE ParseFail

\* key in data, data[key] for an object
HasKey(data, key) == \E j \in 1..Len(data.v) : data.v[j].k = key
GetKey(data, key) == data.v[CHOOSE j \in 1..Len(data.v) : data.v[j].k = key].val

(***************************************************************************)
(* schema.py                                                               *)
(***************************************************************************)

VALID_ACTIONS == {"query", "calculate", "answer"}

RECURSIVE FixFrom(_, _, _, _)
\* the loop of _fix_json_newlines from index i on.  The characters the loop
\* only copies (its last branch) are copied as one run: outside a string all but
\* the quote, inside a string all but quote, backslash, newline, return and tab
FixFrom(cs, i, in_string, acc) ==
  LET j == NextIndex(cs, i,
                     IF in_string THEN {"\"", "\\", "\n", "\r", "\t"} ELSE {"\""},
                     TRUE)
      copied == acc \o SubSeq(cs, i, j - 1)
  IN  IF j > Len(cs) THEN copied
      ELSE IF cs[j] = "\\" /\ in_string /\ j + 1 <= Len(cs)
        THEN FixFrom(cs, j + 2, in_string, copied \o <<cs[j], cs[j + 1]>>)
      ELSE IF cs[j] = "\"" THEN FixFrom(cs, j + 1, ~in_string, Append(copied, cs[j]))
      ELSE IF cs[j] = "\n" /\ in_string
        THEN FixFrom(cs, j + 1, in_string, copied \o <<"\\", "n">>)
      ELSE IF cs[j] = "\r" /\ in_string
        THEN FixFrom(cs, j + 1, in_string, copied \o <<"\\", "r">>)
      ELSE IF cs[j] = "\t" /\ in_string
        THEN FixFrom(cs, j + 1, in_string, copied \o <<"\\", "t">>)
      ELSE FixFrom(cs, j + 1, in_string, Append(copied, cs[j]))

\* a variant of _fix_json_newlines without the quote state: a control character
\* is escaped wherever it stands
FixEverywhere(cs) ==
  LET escaped(c) == CASE c = "\n" -> "\\n" [] c = "\r" -> "\\r" [] c = "\t" -> "\\t"
                      [] OTHER -> c
  IN  Chars(Join([i \in 1..Len(cs) |-> escaped(cs[i])]))

\* a variant of _fix_json_newlines that blanks the control characters
FixBySpaces(cs) ==
  [i \in 1..Len(cs) |-> IF cs[i] \in {"\n", "\r", "\t"} THEN " " ELSE cs[i]]

\* _fix_json_newlines(s)
fix_json_newlines(cs) == FixFrom(cs, 1, FALSE, <<>>)

\* what _validate_fields gives: the dict, None, or a raised TypeError
FieldsOk(data) == [status |-> "ok", action |-> data]
FieldsNone == [status |-> "none", action |-> JNull]
FieldsRaise == [status |-> "raise", action |-> JNull]

\* data[key] is present and a str
HasStr(data, key) == HasKey(data, key) /\ GetKey(data, key).t = "str"

\* a variant of the SELECT test: the word anywhere in the sql, not at its start
IsSelectAnywhere(sql) == FindText(Upper(Strip(Chars(sql))), "SELECT", 1) > 0

\* sql.strip().upper().startswith("SELECT")
IsSelect(sql) == StartsWithAt(Upper(Strip(Chars(sql))), 1, "SELECT")

\* _validate_fields(data)
validate_fields(data) ==
  IF data.t # "obj" THEN FieldsNone
  ELSE IF ~HasKey(data, "action") THEN FieldsNone
  ELSE
    LET tag == GetKey(data, "action")
    IN  \* a list or a dict is unhashable: `action not in VALID_ACTIONS` raises
        IF tag.t \in {"arr", "obj"} THEN FieldsRaise
        ELSE IF tag.t # "str" THEN FieldsNone
        ELSE IF tag.v \notin VALID_ACTIONS THEN FieldsNone
        ELSE IF tag.v = "query" THEN
          IF ~HasStr(data, "sql") THEN FieldsNone
          ELSE IF ~IsSelect(GetKey(data, "sql").v) THEN FieldsNone
          ELSE FieldsOk(data)
        ELSE IF tag.v = "calculate" THEN
          IF ~HasStr(data, "expression") THEN FieldsNone ELSE FieldsOk(data)
        ELSE IF tag.v = "answer" THEN
          IF ~HasStr(data, "text") THEN FieldsNone ELSE FieldsOk(data)
        ELSE FieldsOk(data)

\* the markdown code fence: three backticks.  The lexer of TLA+ takes no backtick
\* in a string, so the modelled texts write the backtick as ^
FENCE == "^^^"

\* schema.py lines 82-86: on a text that starts with a fence, the regex search for
\* fence, optional "json", whitespace, lazily anything, fence; then
\* group(1).strip().  The text itself when it has no fence or no closing fence
StripFence(cs) ==
  IF ~StartsWithAt(cs, 1, FENCE) THEN cs
  ELSE
    LET afterTag == IF StartsWithAt(cs, 4, "json") THEN 8 ELSE 4
        content == NextIndex(cs, afterTag, StripChars, FALSE)
        close == FindText(cs, FENCE, content)
    IN  IF close = 0 THEN cs ELSE Strip(SubSeq(cs, content, close - 1))

RECURSIVE MatchBraceAnywhere(_, _, _, _, _)
\* a variant of the brace-matching loop that counts every brace, in a string or not
MatchBraceAnywhere(cs, i, depth, in_string, escape_next) ==
  LET j == NextIndex(cs, i, {"{", "}"}, TRUE)
  IN  IF j > Len(cs) THEN 0
      ELSE IF cs[j] = "{" THEN MatchBraceAnywhere(cs, j + 1, depth + 1, in_string, FALSE)
      ELSE IF depth - 1 = 0 THEN j
      ELSE MatchBraceAnywhere(cs, j + 1, depth - 1, in_string, FALSE)

RECURSIVE MatchBrace(_, _, _, _, _)
\* the brace-matching loop from index i on: the index of the brace that brings
\* depth back to 0, or 0 when the text ends first.  The characters the loop
\* passes over without a change of state are passed as one run: inside a string
\* all but quote and backslash, outside all but quote and the two braces
MatchBrace(cs, i, depth, in_string, escape_next) ==
  IF i > Len(cs) THEN 0
  ELSE IF escape_next THEN MatchBrace(cs, i + 1, depth, in_string, FALSE)
  ELSE
    LET j == NextIndex(cs, i,
                       IF in_string THEN {"\"", "\\"} ELSE {"\"", "{", "}"},
                       TRUE)
    IN  IF j > Len(cs) THEN 0
        ELSE IF cs[j] = "\\" /\ in_string
          THEN MatchBrace(cs, j + 1, depth, in_string, TRUE)
        ELSE IF cs[j] = "\"" THEN MatchBrace(cs, j + 1, depth, ~in_string, FALSE)
        ELSE IF cs[j] = "{" THEN MatchBrace(cs, j + 1, depth + 1, in_string, FALSE)
        ELSE IF depth - 1 = 0 THEN j
        ELSE MatchBrace(cs, j + 1, depth - 1, in_string, FALSE)

\* what validate_action gives: (dict, text), (None, text), or a raised TypeError
Validated(data, cs) == [status |-> "ok", action |-> data, text |-> Join(cs)]
Rejected(cs) == [status |-> "none", action |-> JNull, text |-> Join(cs)]
ValidateRaise == [status |-> "raise", action |-> JNull, text |-> ""]

\* a stage of validate_action that returns nothing: control falls to the next one
FallThrough == [status |-> "next", action |-> JNull, text |-> ""]

\* `if result: return result, text` for the result of _validate_fields
ReturnIfValid(checked, text) ==
  IF checked.status = "raise" THEN ValidateRaise
  ELSE IF checked.status = "ok" THEN Validated(checked.action, text)
  ELSE FallThrough

\* `if isinstance(data, dict): result = _validate_fields(data) ...` for the
\* outcome of json.loads(text)
ReturnIfObject(parsed, text) ==
  IF parsed.ok /\ parsed.val.t = "obj"
    THEN ReturnIfValid(validate_fields(parsed.val), text)
    ELSE FallThrough

\* schema.py lines 88-96: the text as it is
DirectStage(cs) == ReturnIfObject(json_loads(cs), cs)

\* schema.py lines 100-108, fixed being _fix_json_newlines(cs)
RepairWith(cs, fixed) ==
  IF fixed # cs THEN ReturnIfObject(json_loads(fixed), fixed) ELSE FallThrough

\* schema.py lines 98-108: the whole text with its control characters escaped
RepairStage(cs) == RepairWith(cs, fix_json_newlines(cs))

\* schema.py lines 149-158, parsed being the outcome of json.loads(fixed_extracted)
ExtractParsed(cs, fixed_extracted, parsed) ==
  IF ~parsed.ok THEN Rejected(cs)
  ELSE IF validate_fields(parsed.val).status = "none" THEN Rejected(cs)
  ELSE ReturnIfValid(validate_fields(parsed.val), fixed_extracted)

\* a variant of lines 154-157 that returns the text the object was found in
ExtractFixedOriginal(cs, fixed_extracted) ==
  ExtractParsed(cs, cs, json_loads(fixed_extracted))

\* schema.py lines 144-158, fixed_extracted being the repaired extracted object
ExtractFixed(cs, fixed_extracted) ==
  ExtractParsed(cs, fixed_extracted, json_loads(fixed_extracted))

\* schema.py lines 141-158, end being where the brace-matching loop stopped
ExtractTo(cs, start, end) ==
  IF end = 0 THEN Rejected(cs)
  ELSE ExtractFixed(cs, fix_json_newlines(SubSeq(cs, start, end)))

\* schema.py lines 112-158, start being json_str.find('{')
ExtractFrom(cs, start) ==
  IF start = 0 THEN Rejected(cs)
  ELSE ExtractTo(cs, start, MatchBrace(cs, start, 0, FALSE, FALSE))

\* schema.py lines 110-158: the first brace-balanced object of the text
ExtractStage(cs) == ExtractFrom(cs, FindChar(cs, "{", 1))

\* the stages in order: the first that returns decides
FirstReturn(direct, repaired, cs) ==
  IF direct.status # "next" THEN direct
  ELSE IF repaired.status # "next" THEN repaired
  ELSE ExtractStage(cs)

\* schema.py lines 88-158, cs being the stripped text without its fence
ValidateStripped(cs) == FirstReturn(DirectStage(cs), RepairStage(cs), cs)

\* a variant of validate_action without line 79: the text is not stripped
ValidateUnstripped(json_str) == ValidateStripped(StripFence(Chars(json_str)))

\* validate_action(json_str)
validate_action(json_str) == ValidateStripped(StripFence(Strip(Chars(json_str))))

(***************************************************************************)
(* agent.py: constants, the stubs of the collaborators, execute_action     *)
(***************************************************************************)

MAX_RETRIES == 3
MAX_TURNS == 10

\* the most replies the scripted model stub chooses before it repeats itself
MaxScript == 3

RETRY_FAILURE == "Error: Agent failed to produce valid JSON after multiple attempts."
TURN_FAILURE == "Error: Agent reached maximum turns without providing an answer."
RETRY_PROMPT ==
  "Invalid format. Respond with EXACTLY ONE JSON object, nothing else. Example: {\"action\": \"query\", \"sql\": \"SELECT ...\"}"

\* the value of a Python variable that holds None
None == JNull

Message(role, content) == [role |-> role, content |-> content]

\* what each collaborator may do when called
QueryOutcomes == {"rows", "empty", "raise"}
CalculateOutcomes == {"result", "ValueError", "TypeError"}
SearchOutcomes == {"rows", "empty", "raise"}
WhatIfOutcomes == {"fields", "error_field", "raise"}

\* the texts the collaborators' stubs give back
ROWS_JSON == "[\n  {\n    \"n\": 1\n  }\n]"
SCENARIO_JSON == "{\n  \"scenario\": \"Game prices increased by 10%\"\n}"
STUB_ERROR == "stub failure"

\* what execute_action gives: (text, is_error), or an exception it lets through
Returned(text, is_error) == [status |-> "ok", text |-> text, is_error |-> is_error]
Raised == [status |-> "raise", text |-> "", is_error |-> TRUE]

\* a variant of lines 175-176 that reports an empty result as an error
ExecuteQueryEmptyIsError(act, how) ==
  CASE how = "rows" -> Returned(ROWS_JSON, FALSE)
    [] how = "empty" -> Returned("Query error: no results", TRUE)
    [] OTHER -> Returned("Query error: " \o STUB_ERROR, TRUE)

\* agent.py lines 172-179
ExecuteQuery(act, how) ==
  CASE how = "rows" -> Returned(ROWS_JSON, FALSE)
    [] how = "empty" -> Returned("Query returned no results.", FALSE)
    [] OTHER -> Returned("Query error: " \o STUB_ERROR, TRUE)

\* agent.py lines 181-186: only ValueError is caught
ExecuteCalculate(act, how) ==
  CASE how = "result" -> Returned("Result: 4.0", FALSE)
    [] how = "ValueError" ->
         Returned("Calculation error: " \o STUB_ERROR
                    \o ". Remember: calculator only supports numbers and +, -, *, /, parentheses. Try a different approach.",
                  TRUE)
    [] OTHER -> Raised

\* agent.py lines 188-197
ExecuteSearch(act, how) ==
  IF ~HasKey(act, "query") THEN Returned("Search error: 'query'", TRUE)
  ELSE CASE how = "rows" -> Returned(ROWS_JSON, FALSE)
         [] how = "empty" -> Returned("No matching games found.", FALSE)
         [] OTHER -> Returned("Search error: " \o STUB_ERROR, TRUE)

\* whatif.py lines 300-305: the scenario types run_scenario knows
SCENARIOS == {"price_change", "volume_change", "expense_change", "hours_change"}

\* a mapping with an error field, and the mapping of a scenario that worked
ErrorMapping(message) == JObj(<<[k |-> "error", val |-> JStr(message)]>>)
SCENARIO_FIELDS ==
  JObj(<<[k |-> "scenario", val |-> JStr("Game prices increased by 10%")]>>)

\* run_scenario(scenario_type, **params), whatif.py lines 291-318, the scenario
\* function called behaving as `how` says: it returns its fields, returns a
\* mapping with an error field, or raises, which line 317 catches.  A list as
\* scenario_type cannot be looked up (TypeError at line 308); scenario types
\* that are neither strings nor lists are not among the inputs
run_scenario(scenario_type, params, how) ==
  CASE scenario_type.t = "arr" -> [t |-> "raise", v |-> "unhashable type: 'list'"]
    [] scenario_type.t = "str" /\ scenario_type.v \notin SCENARIOS ->
         JObj(<<[k |-> "error",
                 val |-> JStr("Unknown scenario type: " \o scenario_type.v)],
                [k |-> "valid_types",
                 val |-> JArr(<<JStr("price_change"), JStr("volume_change"),
                                JStr("expense_change"), JStr("hours_change")>>)]>>)
    [] scenario_type.t = "str" /\ scenario_type.v \in SCENARIOS ->
         IF how = "fields" THEN SCENARIO_FIELDS ELSE ErrorMapping(STUB_ERROR)

\* a variant of lines 203-205 that does not look for the error field
WhatIfResultUnchecked(scenario) ==
  IF scenario.t = "raise" THEN Returned("What-if error: " \o scenario.v, TRUE)
  ELSE Returned(SCENARIO_JSON, FALSE)

\* agent.py lines 202-207 for what run_scenario gave; json.dumps of the mapping
\* of a scenario that worked is SCENARIO_JSON
WhatIfResult(scenario) ==
  IF scenario.t = "raise" THEN Returned("What-if error: " \o scenario.v, TRUE)
  ELSE IF HasKey(scenario, "error")
    THEN Returned("Scenario error: " \o GetKey(scenario, "error").v, TRUE)
  ELSE Returned(SCENARIO_JSON, FALSE)

\* agent.py lines 199-207
ExecuteWhatIf(act, how) ==
  IF ~HasKey(act, "scenario_type") THEN Returned("What-if error: 'scenario_type'", TRUE)
  ELSE IF ~HasKey(act, "params") THEN Returned("What-if error: 'params'", TRUE)
  ELSE IF GetKey(act, "params").t # "obj"
    THEN Returned("What-if error: whatif.run_scenario() argument after ** must be a mapping, not list", TRUE)
  ELSE IF HasKey(GetKey(act, "params"), "scenario_type")
    THEN Returned("What-if error: run_scenario() got multiple values for argument 'scenario_type'", TRUE)
  ELSE WhatIfResult(run_scenario(GetKey(act, "scenario_type"), GetKey(act, "params"), how))

\* action["action"]
ActionType(act) == GetKey(act, "action").v

\* the outcomes of the collaborator that execute_action calls for this action
OutcomesFor(act) ==
  CASE ActionType(act) = "query" -> QueryOutcomes
    [] ActionType(act) = "calculate" -> CalculateOutcomes
    [] ActionType(act) = "search" -> SearchOutcomes
    [] ActionType(act) = "whatif" -> WhatIfOutcomes
    [] OTHER -> {"none"}

\* execute_action(action), the collaborator called behaving as `how` says
execute_action(act, how) ==
  CASE ActionType(act) = "query" -> ExecuteQuery(act, how)
    [] ActionType(act) = "calculate" -> ExecuteCalculate(act, how)
    [] ActionType(act) = "search" -> ExecuteSearch(act, how)
    [] ActionType(act) = "whatif" -> ExecuteWhatIf(act, how)
    [] OTHER -> Returned("Unknown action type.", TRUE)

(***************************************************************************)
(* agent.py: run_agent                                                     *)
(***************************************************************************)

VARIABLES
  pc,               \* where run_agent is: call_llm, validate, check,
                    \* after_retries, loop_end, done
  turn,             \* the outer loop's index
  attempt,          \* the inner loop's index
  messages,         \* the conversation
  response_text,    \* the last model output, or None
  cleaned_response, \* the text validate_action gave back, or None
  action,           \* the dict validate_action gave back, or None
  result,           \* what run_agent returns
  outcome,          \* running, answer, retry_exhausted, turns_exhausted, raised
  raisedBy,         \* the call whose exception ended the run, or none
  script,           \* the model stub: the replies it has chosen so far
  loopStart,        \* the script entry the model stub repeats from, 0 while the script grows
  tools,            \* the collaborators' stubs: tool -> outcome, or unset
  modelCalls,       \* the stub's count of call_llm calls
  turnCalls,        \* of these, the calls of the current turn
  turnsStarted,     \* the number of iterations of the outer loop begun
  toolLog,          \* the actions execute_action was called with
  v_pc,             \* the normalizer on its own: input, validated, dispatched
  v_text,           \* its input text
  v_out,            \* what validate_action gave for it
  v_tool,           \* what execute_action gave for the validated action
  c_pc,             \* the calculator on its own: input, evaluated, executed
  c_expr,           \* its input expression
  c_out,            \* what calculate gave for it
  c_tool,           \* what execute_action gave for a calculate action with it
  d_pc,             \* the dispatcher on its own: input, executed
  d_action,         \* the action execute_action is called with
  d_how,            \* what the collaborator of the action does
  d_out,            \* what execute_action gave
  m_pc,             \* the interactive loop of main: prompt, quit
  conversation_history, \* the history main keeps between questions
  m_last,           \* what the last iteration of the loop did
  on_progress,      \* the progress sink run_agent is given, or None
  sunk,             \* the events the sink has received
  o_phase,          \* 0: one run; 1, 2: the first and second of two runs on the same replies
  o_first,          \* how the first of the two runs ended
  _client,          \* the module-level client of search, or None
  _collection,      \* the module-level collection handle of search, or None
  s_pc,             \* where each session is in search_games
  s_local,          \* the locals of each session: collection, existing, n_results, results
  s_index,          \* the ids stored in the persistent collection
  s_log             \* the calls made on the index library, in order

vars == <<pc, turn, attempt, messages, response_text, cleaned_response, action,
          result, outcome, raisedBy, script, loopStart, tools, modelCalls, turnCalls,
          turnsStarted, toolLog, v_pc, v_text, v_out, v_tool, c_pc, c_expr, c_out,
          c_tool, d_pc, d_action, d_how, d_out, m_pc, conversation_history, m_last,
          on_progress, sunk, o_phase, o_first,
          _client, _collection, s_pc, s_local, s_index, s_log>>

agentVars == <<pc, turn, attempt, messages, response_text, cleaned_response, action,
               result, outcome, raisedBy, script, loopStart, tools, modelCalls,
               turnCalls, turnsStarted, toolLog>>

normalizerVars == <<v_pc, v_text, v_out, v_tool>>

calculatorVars == <<c_pc, c_expr, c_out, c_tool>>

dispatcherVars == <<d_pc, d_action, d_how, d_out>>

sessionVars == <<m_pc, conversation_history, m_last>>

observerVars == <<on_progress, sunk, o_phase, o_first>>

searchVars == <<_client, _collection, s_pc, s_local, s_index, s_log>>

runPairVars == <<on_progress, o_phase, o_first>>

\* the model outputs the stub chooses from
R_ANSWER == "{\"action\": \"answer\", \"text\": \"We have 15 games.\"}"
R_QUERY_THEN_MORE ==
  "{\"action\": \"query\", \"sql\": \"SELECT 1\"}\n\n{\"action\": \"calculate\", \"expression\": \"fake\"}"
R_CALCULATE == "{\"action\": \"calculate\", \"expression\": \"2 + 2\"}"
R_NOT_SELECT ==
  "{\"action\": \"query\", \"sql\": \"DELETE FROM board_games WHERE id IN (SELECT 1)\"}"
R_NOT_JSON == "not json"
R_SEARCH == "{\"action\": \"search\", \"query\": \"cooperative family games\", \"n\": 5}"
R_LIST_TAG == "{\"action\": [\"answer\"], \"text\": \"We have 15 games.\"}"

Responses ==
  {R_ANSWER, R_QUERY_THEN_MORE, R_CALCULATE, R_NOT_SELECT, R_NOT_JSON, R_SEARCH,
   R_LIST_TAG}

\* the stub's reply when call_llm raises instead of returning a text
MODEL_FAILURE == "<call_llm raises>"

Replies == Responses \cup {MODEL_FAILURE}

\* validate_action on each of the stub's texts
NormalizerOf == [r \in Responses |-> validate_action(r)]

QUESTION == "How many board games do we have in total?"

\* the conversation_history argument: absent, or one earlier question and answer
Histories ==
  {<<>>,
   <<Message("user", "Which game is cheapest?"),
     Message("assistant", "Love Letter is the cheapest game.")>>}

\* agent.py lines 234-238: messages is a new list; the messages of the caller's
\* list, if it has any, are copied into it, and the question is appended
SeedMessages(history) == Append(history, Message("user", QUESTION))

\* a variant of lines 235-237 that takes the caller's list itself for messages:
\* what is appended to the conversation shows in the caller's list
CallerListShared(appended) == appended

\* the caller's list after an append to messages: messages being a list of its
\* own (line 235), the append does not reach the list the caller passed
CallerList(appended) == conversation_history

\* a variant of the retry loop's bound: one attempt more than MAX_RETRIES
MoreAttemptsOneMore(a) == a + 1 <= MAX_RETRIES

\* a variant of the retry loop's bound: the attempts are counted over the run,
\* not over the turn
MoreAttemptsInRun(a) == a + 1 < MAX_RETRIES /\ modelCalls < MAX_RETRIES

\* range(MAX_RETRIES) has a value after a
MoreAttempts(a) == a + 1 < MAX_RETRIES

\* range(MAX_TURNS) has a value after t
MoreTurns(t) == t + 1 < MAX_TURNS

\* a variant of line 261: the retry pair is appended after the last attempt too
RetryFollowsOnLast(a) == a < MAX_RETRIES

\* agent.py line 261: the failed attempt is not the last of the turn
RetryFollows(a) == a < MAX_RETRIES - 1

Init ==
  /\ pc = "call_llm"
  /\ turn = 0
  /\ attempt = 0
  /\ conversation_history \in Histories
  /\ messages = SeedMessages(conversation_history)
  /\ response_text = None
  /\ cleaned_response = None
  /\ action = None
  /\ result = None
  /\ outcome = "running"
  /\ raisedBy = "none"
  /\ script = <<>>
  /\ loopStart = 0
  /\ tools = [query |-> "unset", calculate |-> "unset"]
  /\ modelCalls = 0
  /\ turnCalls = 0
  /\ turnsStarted = 1
  /\ toolLog = <<>>
  /\ v_pc = "idle"
  /\ v_text = ""
  /\ v_out = None
  /\ v_tool = None
  /\ c_pc = "idle"
  /\ c_expr = ""
  /\ c_out = None
  /\ c_tool = None
  /\ d_pc = "idle"
  /\ d_action = None
  /\ d_how = "none"
  /\ d_out = None
  /\ m_pc = "idle"
  /\ m_last = None
  /\ on_progress = None
  /\ sunk = <<>>
  /\ o_phase = 0
  /\ o_first = None
  /\ _client = None
  /\ _collection = None
  /\ s_pc = <<>>
  /\ s_local = <<>>
  /\ s_index = {}
  /\ s_log = <<>>

\* the exception of callee leaves run_agent
Propagate(callee) ==
  /\ pc' = "done"
  /\ outcome' = "raised"
  /\ raisedBy' = callee

\* str(n) for a natural number
RECURSIVE DecimalText(_)
DecimalText(n) ==
  IF n < 10 THEN SubSeq("0123456789", n + 1, n + 1)
  ELSE DecimalText(n \div 10) \o SubSeq("0123456789", (n % 10) + 1, (n % 10) + 1)

\* text[:n], and the display form `text[:n - 3] + "..."` of a text longer than n
Prefix(text, n) == SubSeq(text, 1, IF Len(text) < n THEN Len(text) ELSE n)
Truncated(text, n) == IF Len(text) > n THEN Prefix(text, n - 3) \o "..." ELSE text

\* the arguments of one call of emit
Event(event, tool, detail) == [event |-> event, tool |-> tool, detail |-> detail]

\* agent.py line 247
ThinkingEvent(t) == Event("thinking", "", "Turn " \o DecimalText(t + 1))

\* agent.py line 260
RetryEvent(a) ==
  Event("retry", "", "Attempt " \o DecimalText(a + 1) \o " failed, retrying...")

\* agent.py lines 280-286.  The branches of lines 287-290 are for search and
\* whatif actions, which validate_action does not return (VALID_ACTIONS)
ToolCallEvent(act) ==
  CASE ActionType(act) = "query" ->
         LET sql == Strip(Chars(GetKey(act, "sql").v))
             one_line == Join([i \in 1..Len(sql) |-> IF sql[i] = "\n" THEN " " ELSE sql[i]])
         IN  Event("tool_call", "query", Truncated(one_line, 80))
    [] ActionType(act) = "calculate" ->
         Event("tool_call", "calculate", GetKey(act, "expression").v)

\* result.split(".")[0] if "." in result else result
UpToFullStop(text) ==
  LET dot == FindChar(Chars(text), ".", 1)
  IN  IF dot = 0 THEN text ELSE SubSeq(text, 1, dot - 1)

\* len(json.loads(result)) of lines 304-305: the length of a list, a mapping or
\* a string; -1 stands for the JSONDecodeError or TypeError line 306 catches
LoadedLength(text) ==
  LET data == json_loads(Chars(text))
  IN  IF data.ok /\ data.val.t \in {"arr", "obj", "str"} THEN Len(data.val.v) ELSE -1

\* agent.py lines 296-322, for a tool action and what execute_action returned
ResultEvent(act, r) ==
  CASE r.is_error ->
         Event("error", ActionType(act), Truncated(UpToFullStop(r.text), 60))
    [] ~r.is_error /\ ActionType(act) = "query" ->
         IF LoadedLength(r.text) >= 0
           THEN Event("result", "query",
                      DecimalText(LoadedLength(r.text)) \o " row(s) returned")
           ELSE Event("result", "query", Prefix(r.text, 50))
    [] ~r.is_error /\ ActionType(act) = "calculate" ->
         Event("result", "calculate", r.text)

\* the progress sinks: one that returns, and one that raises when called
RETURNING_SINK == [t |-> "callable", v |-> "returns"]
RAISING_SINK == [t |-> "callable", v |-> "raises"]
Sinks == {RETURNING_SINK, RAISING_SINK}

\* a variant of lines 230-232 without the test of line 231: None is called
EmitUnguarded(sink) == IF sink \in {None, RAISING_SINK} THEN "raise" ELSE "ok"

\* emit, agent.py lines 230-232: the sink is called if there is one, and what
\* it raises leaves emit
emit(sink) == IF sink = RAISING_SINK THEN "raise" ELSE "ok"

\* what the sink has received after calls of emit that returned
Deliver(events) == sunk' = IF on_progress = None THEN sunk ELSE sunk \o events

\* the reply the stub repeats as its call number n, counted from 0, once it has
\* gone back to entry start of its script
Replayed(n, start) ==
  script[start + ((n - Len(script)) % (Len(script) - start + 1))]

\* the stub's reply to its next call: the script's entry for that call, when a
\* second run is made on the replies of the first; a new choice while the script
\* is open and shorter than MaxScript; or the script is closed, and from then on
\* the entries from loopStart to its end are repeated
StubReply(r) ==
  IF modelCalls < Len(script)
    THEN /\ r = script[modelCalls + 1]
         /\ UNCHANGED <<script, loopStart>>
    ELSE
      \/ /\ loopStart = 0
         /\ Len(script) < MaxScript
         /\ script' = Append(script, r)
         /\ loopStart' = loopStart
      \/ /\ loopStart = 0
         /\ script # <<>>
         /\ \E start \in 1..Len(script) :
              /\ loopStart' = start
              /\ r = Replayed(modelCalls, start)
         /\ script' = script
      \/ /\ loopStart > 0
         /\ r = Replayed(modelCalls, loopStart)
         /\ UNCHANGED <<script, loopStart>>

\* agent.py lines 247-248: emit("thinking", ...), which a raising sink ends,
\* then response_text = call_llm(messages, system)
CallModel ==
  /\ pc = "call_llm"
  /\ IF emit(on_progress) = "raise"
       THEN /\ Propagate("on_progress")
            /\ UNCHANGED <<response_text, script, loopStart, modelCalls, turnCalls, sunk>>
       ELSE /\ Deliver(<<ThinkingEvent(turn)>>)
            /\ \E r \in Replies :
                 /\ StubReply(r)
                 /\ IF r = MODEL_FAILURE
                      THEN Propagate("call_llm") /\ UNCHANGED response_text
                      ELSE /\ response_text' = r
                           /\ pc' = "validate"
                           /\ UNCHANGED <<outcome, raisedBy>>
            /\ modelCalls' = modelCalls + 1
            /\ turnCalls' = turnCalls + 1
  /\ UNCHANGED <<turn, attempt, messages, cleaned_response, action, result, tools,
                 turnsStarted, toolLog>>
  /\ UNCHANGED runPairVars
  /\ UNCHANGED <<normalizerVars, calculatorVars, dispatcherVars, sessionVars, searchVars>>

\* line 254 for v, what validate_action(response_text) gives
Unpack(v) ==
  IF v.status = "raise"
    THEN Propagate("validate_action") /\ UNCHANGED <<action, cleaned_response>>
    ELSE /\ action' = v.action
         /\ cleaned_response' = v.text
         /\ pc' = "check"
         /\ UNCHANGED <<outcome, raisedBy>>

\* agent.py line 254: action, cleaned_response = validate_action(response_text)
Validate ==
  /\ pc = "validate"
  /\ Unpack(NormalizerOf[response_text])
  /\ UNCHANGED <<turn, attempt, messages, response_text, result, script, loopStart,
                 tools, modelCalls, turnCalls, turnsStarted, toolLog>>
  /\ UNCHANGED <<normalizerVars, calculatorVars, dispatcherVars, sessionVars, observerVars, searchVars>>

\* a variant of lines 256-257 without the break: a valid action is followed by
\* the next attempt all the same
BreakSkipped ==
  /\ pc = "check"
  /\ action # None
  /\ IF MoreAttempts(attempt)
       THEN attempt' = attempt + 1 /\ pc' = "call_llm"
       ELSE attempt' = attempt /\ pc' = "after_retries"
  /\ UNCHANGED <<turn, messages, response_text, cleaned_response, action,
                 result, outcome, raisedBy, script, loopStart, tools, modelCalls,
                 turnCalls, turnsStarted, toolLog>>
  /\ UNCHANGED <<normalizerVars, calculatorVars, dispatcherVars, sessionVars, observerVars, searchVars>>

\* agent.py lines 256-257: a valid action leaves the retry loop
Break ==
  /\ pc = "check"
  /\ action # None
  /\ pc' = "after_retries"
  /\ UNCHANGED <<turn, attempt, messages, response_text, cleaned_response, action,
                 result, outcome, raisedBy, script, loopStart, tools, modelCalls,
                 turnCalls, turnsStarted, toolLog>>
  /\ UNCHANGED <<normalizerVars, calculatorVars, dispatcherVars, sessionVars, observerVars, searchVars>>

\* the conversation without the retry pair at its end, if it ends with one
WithoutRetryPair(conversation) ==
  IF Len(conversation) >= 2 /\ conversation[Len(conversation)].content = RETRY_PROMPT
    THEN SubSeq(conversation, 1, Len(conversation) - 2)
    ELSE conversation

\* a variant of lines 259-266 that keeps one retry pair only: the pair of the
\* attempt before is replaced by the new one
RetryPromptReplacing ==
  /\ pc = "check"
  /\ action = None
  /\ messages' =
       IF RetryFollows(attempt)
         THEN WithoutRetryPair(messages) \o <<Message("assistant", response_text),
                                              Message("user", RETRY_PROMPT)>>
         ELSE messages
  /\ IF MoreAttempts(attempt)
       THEN attempt' = attempt + 1 /\ pc' = "call_llm"
       ELSE attempt' = attempt /\ pc' = "after_retries"
  /\ UNCHANGED <<turn, response_text, cleaned_response, action, result, outcome,
                 raisedBy, script, loopStart, tools, modelCalls, turnCalls,
                 turnsStarted, toolLog>>
  /\ Deliver(<<RetryEvent(attempt)>>)
  /\ UNCHANGED runPairVars
  /\ conversation_history' = CallerList(messages')
  /\ UNCHANGED <<m_pc, m_last>>
  /\ UNCHANGED <<normalizerVars, calculatorVars, dispatcherVars, searchVars>>

\* a variant of lines 259-266 with line 260 under the test of line 261: the
\* retry event is emitted only when a retry follows
RetryPromptSilentOnLast ==
  /\ pc = "check"
  /\ action = None
  /\ messages' =
       IF RetryFollows(attempt)
         THEN messages \o <<Message("assistant", response_text),
                            Message("user", RETRY_PROMPT)>>
         ELSE messages
  /\ IF MoreAttempts(attempt)
       THEN attempt' = attempt + 1 /\ pc' = "call_llm"
       ELSE attempt' = attempt /\ pc' = "after_retries"
  /\ UNCHANGED <<turn, response_text, cleaned_response, action, result, outcome,
                 raisedBy, script, loopStart, tools, modelCalls, turnCalls,
                 turnsStarted, toolLog>>
  /\ Deliver(IF RetryFollows(attempt) THEN <<RetryEvent(attempt)>> ELSE <<>>)
  /\ UNCHANGED runPairVars
  /\ conversation_history' = CallerList(messages')
  /\ UNCHANGED <<m_pc, m_last>>
  /\ UNCHANGED <<normalizerVars, calculatorVars, dispatcherVars, searchVars>>

\* agent.py lines 259-266, then line 246 again: the retry prompt and the next attempt
RetryPrompt ==
  /\ pc = "check"
  /\ action = None
  /\ messages' =
       IF RetryFollows(attempt)
         THEN messages \o <<Message("assistant", response_text),
                            Message("user", RETRY_PROMPT)>>
         ELSE messages
  /\ IF MoreAttempts(attempt)
       THEN attempt' = attempt + 1 /\ pc' = "call_llm"
       ELSE attempt' = attempt /\ pc' = "after_retries"
  /\ UNCHANGED <<turn, response_text, cleaned_response, action, result, outcome,
                 raisedBy, script, loopStart, tools, modelCalls, turnCalls,
                 turnsStarted, toolLog>>
  /\ Deliver(<<RetryEvent(attempt)>>)
  /\ UNCHANGED runPairVars
  /\ conversation_history' = CallerList(messages')
  /\ UNCHANGED <<m_pc, m_last>>
  /\ UNCHANGED <<normalizerVars, calculatorVars, dispatcherVars, searchVars>>

\* a variant of lines 268-269: a turn without a valid action gives way to the
\* next turn, the run ending only with the last turn
RetryExhaustedNextTurn ==
  /\ pc = "after_retries"
  /\ action = None
  /\ IF MoreTurns(turn)
       THEN /\ turn' = turn + 1
            /\ attempt' = 0
            /\ turnCalls' = 0
            /\ turnsStarted' = turnsStarted + 1
            /\ pc' = "call_llm"
            /\ UNCHANGED <<result, outcome>>
       ELSE /\ result' = RETRY_FAILURE
            /\ outcome' = "retry_exhausted"
            /\ pc' = "done"
            /\ UNCHANGED <<turn, attempt, turnCalls, turnsStarted>>
  /\ UNCHANGED <<messages, response_text, cleaned_response, action, raisedBy,
                 script, loopStart, tools, modelCalls, toolLog>>
  /\ UNCHANGED <<normalizerVars, calculatorVars, dispatcherVars, sessionVars, observerVars, searchVars>>

\* agent.py lines 268-269
RetryExhausted ==
  /\ pc = "after_retries"
  /\ action = None
  /\ result' = RETRY_FAILURE
  /\ outcome' = "retry_exhausted"
  /\ pc' = "done"
  /\ UNCHANGED <<turn, attempt, messages, response_text, cleaned_response, action,
                 raisedBy, script, loopStart, tools, modelCalls, turnCalls,
                 turnsStarted, toolLog>>
  /\ UNCHANGED <<normalizerVars, calculatorVars, dispatcherVars, sessionVars, observerVars, searchVars>>

\* a variant of lines 271-276: the canonical JSON text is returned, not the
\* text field of the action
AnswerWholeObject ==
  /\ pc = "after_retries"
  /\ action # None
  /\ ActionType(action) = "answer"
  /\ result' = cleaned_response
  /\ outcome' = "answer"
  /\ pc' = "done"
  /\ UNCHANGED <<turn, attempt, messages, response_text, cleaned_response, action,
                 raisedBy, script, loopStart, tools, modelCalls, turnCalls,
                 turnsStarted, toolLog>>
  /\ Deliver(<<Event("answer", "", "")>>)
  /\ UNCHANGED runPairVars
  /\ UNCHANGED <<normalizerVars, calculatorVars, dispatcherVars, sessionVars, searchVars>>

\* agent.py lines 271-276
Answer ==
  /\ pc = "after_retries"
  /\ action # None
  /\ ActionType(action) = "answer"
  /\ result' = GetKey(action, "text").v
  /\ outcome' = "answer"
  /\ pc' = "done"
  /\ UNCHANGED <<turn, attempt, messages, response_text, cleaned_response, action,
                 raisedBy, script, loopStart, tools, modelCalls, turnCalls,
                 turnsStarted, toolLog>>
  /\ Deliver(<<Event("answer", "", "")>>)
  /\ UNCHANGED runPairVars
  /\ UNCHANGED <<normalizerVars, calculatorVars, dispatcherVars, sessionVars, searchVars>>

\* a variant of lines 326-327: the raw model output as the assistant message
ToolMessagesRaw(cleaned, tool_result) ==
  <<Message("assistant", response_text),
    Message("user", "Tool result:\n" \o tool_result)>>

\* a variant of lines 326-327 without line 326: the tool result alone is appended
ToolMessagesResultOnly(cleaned, tool_result) ==
  <<Message("user", "Tool result:\n" \o tool_result)>>

\* the messages agent.py lines 326-327 append after a tool has run
ToolMessages(cleaned, tool_result) ==
  <<Message("assistant", cleaned),
    Message("user", "Tool result:\n" \o tool_result)>>

\* a variant of lines 293-327 in which a tool error is raised, not returned
DispatchErrorRaised ==
  /\ pc = "after_retries"
  /\ action # None
  /\ ActionType(action) # "answer"
  /\ \E o \in OutcomesFor(action) :
       /\ tools[ActionType(action)] \in {"unset", o}
       /\ tools' = [tools EXCEPT ![ActionType(action)] = o]
       /\ LET r == execute_action(action, o)
          IN  IF r.status = "raise" \/ r.is_error
                THEN /\ Propagate("execute_action")
                     /\ Deliver(<<ToolCallEvent(action)>>)
                     /\ UNCHANGED <<turn, attempt, messages, response_text,
                                    cleaned_response, action, turnCalls, turnsStarted>>
                ELSE /\ messages' = messages \o ToolMessages(cleaned_response, r.text)
                     /\ Deliver(<<ToolCallEvent(action), ResultEvent(action, r)>>)
                     /\ UNCHANGED <<outcome, raisedBy>>
                     /\ IF MoreTurns(turn)
                          THEN /\ turn' = turn + 1
                               /\ attempt' = 0
                               /\ response_text' = None
                               /\ cleaned_response' = None
                               /\ action' = None
                               /\ turnCalls' = 0
                               /\ turnsStarted' = turnsStarted + 1
                               /\ pc' = "call_llm"
                          ELSE /\ pc' = "loop_end"
                               /\ UNCHANGED <<turn, attempt, response_text,
                                              cleaned_response, action, turnCalls,
                                              turnsStarted>>
  /\ toolLog' = Append(toolLog, action)
  /\ UNCHANGED <<result, script, loopStart, modelCalls>>
  /\ UNCHANGED runPairVars
  /\ conversation_history' = CallerList(messages')
  /\ UNCHANGED <<m_pc, m_last>>
  /\ UNCHANGED <<normalizerVars, calculatorVars, dispatcherVars, searchVars>>

\* agent.py lines 278-327, then lines 240-246 again: the tool runs, its result
\* joins the conversation, the next turn begins
Dispatch ==
  /\ pc = "after_retries"
  /\ action # None
  /\ ActionType(action) # "answer"
  /\ \E o \in OutcomesFor(action) :
       /\ tools[ActionType(action)] \in {"unset", o}
       /\ tools' = [tools EXCEPT ![ActionType(action)] = o]
       /\ LET r == execute_action(action, o)
          IN  IF r.status = "raise"
                THEN /\ Propagate("execute_action")
                     /\ Deliver(<<ToolCallEvent(action)>>)
                     /\ UNCHANGED <<turn, attempt, messages, response_text,
                                    cleaned_response, action, turnCalls, turnsStarted>>
                ELSE /\ messages' = messages \o ToolMessages(cleaned_response, r.text)
                     /\ Deliver(<<ToolCallEvent(action), ResultEvent(action, r)>>)
                     /\ UNCHANGED <<outcome, raisedBy>>
                     /\ IF MoreTurns(turn)
                          THEN /\ turn' = turn + 1
                               /\ attempt' = 0
                               /\ response_text' = None
                               /\ cleaned_response' = None
                               /\ action' = None
                               /\ turnCalls' = 0
                               /\ turnsStarted' = turnsStarted + 1
                               /\ pc' = "call_llm"
                          ELSE /\ pc' = "loop_end"
                               /\ UNCHANGED <<turn, attempt, response_text,
                                              cleaned_response, action, turnCalls,
                                              turnsStarted>>
  /\ toolLog' = Append(toolLog, action)
  /\ UNCHANGED <<result, script, loopStart, modelCalls>>
  /\ UNCHANGED runPairVars
  /\ conversation_history' = CallerList(messages')
  /\ UNCHANGED <<m_pc, m_last>>
  /\ UNCHANGED <<normalizerVars, calculatorVars, dispatcherVars, searchVars>>

\* a variant of line 329: the retry-exhaustion string for turn exhaustion
TurnsExhaustedAsRetries ==
  /\ pc = "loop_end"
  /\ result' = RETRY_FAILURE
  /\ outcome' = "turns_exhausted"
  /\ pc' = "done"
  /\ UNCHANGED <<turn, attempt, messages, response_text, cleaned_response, action,
                 raisedBy, script, loopStart, tools, modelCalls, turnCalls,
                 turnsStarted, toolLog>>
  /\ UNCHANGED <<normalizerVars, calculatorVars, dispatcherVars, sessionVars, observerVars, searchVars>>

\* agent.py line 329
TurnsExhausted ==
  /\ pc = "loop_end"
  /\ result' = TURN_FAILURE
  /\ outcome' = "turns_exhausted"
  /\ pc' = "done"
  /\ UNCHANGED <<turn, attempt, messages, response_text, cleaned_response, action,
                 raisedBy, script, loopStart, tools, modelCalls, turnCalls,
                 turnsStarted, toolLog>>
  /\ UNCHANGED <<normalizerVars, calculatorVars, dispatcherVars, sessionVars, observerVars, searchVars>>

Next ==
  \/ CallModel
  \/ Validate
  \/ Break
  \/ RetryPrompt
  \/ RetryExhausted
  \/ Answer
  \/ Dispatch
  \/ TurnsExhausted

\* run_agent with a scripted model and stubbed collaborators
Spec == Init /\ [][Next]_vars

\* the same, every call returning and the single thread of control running on
FairSpec == Spec /\ WF_vars(Next)

\* how a run ended: what it returned or who raised, the model calls made, the
\* tools called, and the conversation built
RunSummary ==
  [result |-> result, outcome |-> outcome, raisedBy |-> raisedBy,
   modelCalls |-> modelCalls, toolLog |-> toolLog, conversation |-> messages]

\* the messages run_agent starts with (lines 234-238), which lead its conversation
FirstMessages(conversation) ==
  SubSeq(conversation, 1,
         CHOOSE i \in 1..Len(conversation) :
           /\ conversation[i] = Message("user", QUESTION)
           /\ \A j \in 1..(i - 1) : conversation[j] # Message("user", QUESTION))

\* two calls of run_agent with the same arguments but for on_progress, the
\* model and the collaborators answering the second as they answered the first
InitObserver ==
  /\ pc = "call_llm"
  /\ turn = 0
  /\ attempt = 0
  /\ \E h \in Histories : messages = Append(h, Message("user", QUESTION))
  /\ response_text = None
  /\ cleaned_response = None
  /\ action = None
  /\ result = None
  /\ outcome = "running"
  /\ raisedBy = "none"
  /\ script = <<>>
  /\ loopStart = 0
  /\ tools = [query |-> "unset", calculate |-> "unset"]
  /\ modelCalls = 0
  /\ turnCalls = 0
  /\ turnsStarted = 1
  /\ toolLog = <<>>
  /\ v_pc = "idle"
  /\ v_text = ""
  /\ v_out = None
  /\ v_tool = None
  /\ c_pc = "idle"
  /\ c_expr = ""
  /\ c_out = None
  /\ c_tool = None
  /\ d_pc = "idle"
  /\ d_action = None
  /\ d_how = "none"
  /\ d_out = None
  /\ m_pc = "idle"
  /\ conversation_history = <<>>
  /\ m_last = None
  /\ on_progress = None
  /\ sunk = <<>>
  /\ o_phase = 1
  /\ o_first = None
  /\ _client = None
  /\ _collection = None
  /\ s_pc = <<>>
  /\ s_local = <<>>
  /\ s_index = {}
  /\ s_log = <<>>

\* the first run has ended: the second is called, with a progress sink
Restart ==
  /\ o_phase = 1
  /\ pc = "done"
  /\ o_first' = RunSummary
  /\ o_phase' = 2
  /\ on_progress' \in Sinks
  /\ pc' = "call_llm"
  /\ turn' = 0
  /\ attempt' = 0
  /\ messages' = FirstMessages(messages)
  /\ response_text' = None
  /\ cleaned_response' = None
  /\ action' = None
  /\ result' = None
  /\ outcome' = "running"
  /\ raisedBy' = "none"
  /\ modelCalls' = 0
  /\ turnCalls' = 0
  /\ turnsStarted' = 1
  /\ toolLog' = <<>>
  /\ UNCHANGED <<script, loopStart, tools, sunk>>
  /\ UNCHANGED <<normalizerVars, calculatorVars, dispatcherVars, sessionVars, searchVars>>

NextObserver == Next \/ Restart

\* run_agent without a progress sink, then with one
SpecObserver == InitObserver /\ [][NextObserver]_vars

(***************************************************************************)
(* The normalizer and the dispatcher on their own: validate_action applied *)
(* to one text, execute_action applied to what it accepted                 *)
(***************************************************************************)

\* the objects a model output may hold: the five kinds of the protocol, then
\* objects that break it
ObjectTexts ==
  {"{\"action\": \"query\", \"sql\": \"select name from board_games\"}",
   "{\"action\": \"calculate\", \"expression\": \"2 + 2\"}",
   "{\"action\": \"search\", \"query\": \"cooperative family games\", \"n\": 5}",
   "{\"action\": \"whatif\", \"scenario_type\": \"price_change\", \"params\": {\"target\": \"games\", \"change_percent\": 10}}",
   "{\"action\": \"answer\", \"text\": \"We have 15 games.\"}",
   "{\"action\": \"answer\", \"text\": \"Use {braces} and \\\"quotes\\\".\"}",
   "{\"action\": \"answer\", \"text\": \"Close } then open {.\"}",
   "{\"action\": \"calculate\", \"expression\": \"len(\\\"}\\\")\"}",
   "{\"action\": \"answer\", \"text\": \"Two\nlines\tand a tab.\"}",
   "{\"action\": \"answer\", \"text\": \"A\\\\\rB\"}",
   "{\"action\": \"query\", \"sql\": \"DELETE FROM board_games WHERE id IN (SELECT 1)\"}",
   "{\"action\": \"query\", \"sql\": 5}",
   "{\"action\": \"answer\"}",
   "{\"action\": \"dance\", \"text\": \"We have 15 games.\"}",
   "{\"action\": [\"answer\"], \"text\": \"We have 15 games.\"}",
   "{\"text\": \"We have 15 games.\"}",
   "{\"action\": \"answer\", \"text\": \"We have 15 games.\"",
   "not json"}

\* what may stand before and after the object
LeadTexts ==
  {"", "Sure! Here is the action: ", "Use {curly} braces: ", "[", "^^^json\n", "^^^\n", " \n"}
TrailTexts ==
  {"", " Let me know.", "]", "\n^^^", "\n\n{\"action\": \"calculate\", \"expression\": \"fake\"}", "\n"}

\* a fenced code block, with and without the json language tag, as in the
\* fenced test of schema.py line 168
FenceLeads == {"^^^json\n", "^^^\n"}
FenceTrail == "\n^^^"

\* a valid answer whose text itself shows a fenced command
FENCE_IN_STRING == "{\"action\": \"answer\", \"text\": \"Run ^^^ls^^^ to list.\"}"

\* texts for the control-character pass alone: a backslash before a literal
\* newline in a string, a string cut after a backslash, control characters
\* outside strings and in a string left open, a backslash and a quote outside a
\* string, an escaped backslash before a newline, and a string of nothing but
\* control characters
RepairTexts ==
  {"{\"a\": \"b\\\nc\"}",
   "\"abc\\",
   "x\ty\n \"open\nend",
   "\\\"in\nside",
   "[\"a\\\\\nb\", \"c\"]\n",
   "\"\r\n\t\""}

NormalizerInputs ==
  {lead \o object \o trail : lead \in LeadTexts, object \in ObjectTexts, trail \in TrailTexts}
    \cup {lead \o FENCE_IN_STRING \o trail : lead \in FenceLeads \cup {""}, trail \in {FenceTrail, ""}}
    \cup RepairTexts

InitNormalizer ==
  /\ v_pc = "input"
  /\ v_text \in NormalizerInputs
  /\ v_out = None
  /\ v_tool = None
  /\ c_pc = "idle"
  /\ c_expr = ""
  /\ c_out = None
  /\ c_tool = None
  /\ d_pc = "idle"
  /\ d_action = None
  /\ d_how = "none"
  /\ d_out = None
  /\ m_pc = "idle"
  /\ conversation_history = <<>>
  /\ m_last = None
  /\ on_progress = None
  /\ sunk = <<>>
  /\ o_phase = 0
  /\ o_first = None
  /\ _client = None
  /\ _collection = None
  /\ s_pc = <<>>
  /\ s_local = <<>>
  /\ s_index = {}
  /\ s_log = <<>>
  /\ pc = "idle"
  /\ turn = 0
  /\ attempt = 0
  /\ messages = <<>>
  /\ response_text = None
  /\ cleaned_response = None
  /\ action = None
  /\ result = None
  /\ outcome = "idle"
  /\ raisedBy = "none"
  /\ script = <<>>
  /\ loopStart = 0
  /\ tools = [query |-> "unset", calculate |-> "unset"]
  /\ modelCalls = 0
  /\ turnCalls = 0
  /\ turnsStarted = 0
  /\ toolLog = <<>>

\* validate_action(v_text)
Normalize ==
  /\ v_pc = "input"
  /\ v_out' = validate_action(v_text)
  /\ v_pc' = "validated"
  /\ UNCHANGED <<v_text, v_tool>>
  /\ UNCHANGED <<agentVars, calculatorVars, dispatcherVars, sessionVars, observerVars, searchVars>>

\* execute_action on the action validate_action returned
DispatchValidated ==
  /\ v_pc = "validated"
  /\ v_out.status = "ok"
  /\ \E o \in OutcomesFor(v_out.action) : v_tool' = execute_action(v_out.action, o)
  /\ v_pc' = "dispatched"
  /\ UNCHANGED <<v_text, v_out>>
  /\ UNCHANGED <<agentVars, calculatorVars, dispatcherVars, sessionVars, observerVars, searchVars>>

NextNormalizer ==
  \/ Normalize
  \/ DispatchValidated

\* validate_action, then execute_action, on every text of NormalizerInputs
SpecNormalizer == InitNormalizer /\ [][NextNormalizer]_vars

(***************************************************************************)
(* calculator.py: expression trees, _eval_node, calculate                  *)
(***************************************************************************)

\* the nodes of the trees ast.parse builds
\* the nodes of Constant hold the literal; numeric is isinstance(node.value,
\* (int, float)), which holds of True and False, the ints 1 and 0
ConstantNode(n) == [node |-> "Constant", literal |-> "int", numeric |-> TRUE, n |-> n]
BoolConstantNode(b) ==
  [node |-> "Constant", literal |-> "bool", numeric |-> TRUE, n |-> IF b THEN 1 ELSE 0]
StrConstantNode == [node |-> "Constant", literal |-> "str", numeric |-> FALSE, n |-> 0]
NameNode(id) == [node |-> "Name", id |-> id]
AttributeNode == [node |-> "Attribute", id |-> "math.sqrt"]
ListNode(elts) == [node |-> "List", elts |-> elts]
BinOpNode(op, left, right) == [node |-> "BinOp", op |-> op, left |-> left, right |-> right]
UnaryOpNode(op, operand) == [node |-> "UnaryOp", op |-> op, operand |-> operand]
CallNode(func, args) == [node |-> "Call", func |-> func, args |-> args, keywords |-> <<>>]
KeywordCallNode(func, args, keywords) ==
  [node |-> "Call", func |-> func, args |-> args, keywords |-> keywords]
Keyword(arg, value) == [arg |-> arg, value |-> value]
SyntaxErrorRaised == [node |-> "SyntaxError"]

\* what evaluation gives: a number n/d with d > 0, an int or (is_float) a
\* float; a list; or a raised exception of class e
Num(n, d, is_float) == [t |-> "num", n |-> n, d |-> d, is_float |-> is_float]
ListVal(items) == [t |-> "list", items |-> items]
Raise(e) == [t |-> "raise", e |-> e]

\* calculator.py lines 9-16, by the names of the ast classes
OPERATORS == {"Add", "Sub", "Mult", "Div", "USub", "UAdd"}

\* calculator.py lines 27-37
FUNCTIONS == {"mean", "median", "mode", "stdev", "range", "avg", "average", "std"}

\* str.lower() on one character
LowerChar(c) ==
  IF \E k \in 1..26 : UpperLetters[k] = c
    THEN LowerLetters[CHOOSE k \in 1..26 : UpperLetters[k] = c]
    ELSE c

\* str.lower()
Lower(s) == Join([i \in 1..Len(s) |-> LowerChar(SubSeq(s, i, i))])

\* list * int
Repeat(items, k) ==
  IF k <= 0 THEN <<>>
  ELSE [i \in 1..(k * Len(items)) |-> items[((i - 1) % Len(items)) + 1]]

\* operator.add, sub, mul and truediv on two values
ApplyBinary(op, l, r) ==
  IF l.t = "num" /\ r.t = "num"
    THEN CASE op = "Add" -> Num(l.n * r.d + r.n * l.d, l.d * r.d, l.is_float \/ r.is_float)
           [] op = "Sub" -> Num(l.n * r.d - r.n * l.d, l.d * r.d, l.is_float \/ r.is_float)
           [] op = "Mult" -> Num(l.n * r.n, l.d * r.d, l.is_float \/ r.is_float)
           [] op = "Div" ->
                IF r.n = 0 THEN Raise("ZeroDivisionError")
                ELSE IF r.n > 0 THEN Num(l.n * r.d, l.d * r.n, TRUE)
                ELSE Num(-(l.n * r.d), l.d * (-r.n), TRUE)
  ELSE IF op = "Add" /\ l.t = "list" /\ r.t = "list" THEN ListVal(l.items \o r.items)
  ELSE IF op = "Mult" /\ l.t = "list" /\ r.t = "num" /\ ~r.is_float
    THEN ListVal(Repeat(l.items, r.n))
  ELSE IF op = "Mult" /\ l.t = "num" /\ ~l.is_float /\ r.t = "list"
    THEN ListVal(Repeat(r.items, l.n))
  ELSE Raise("TypeError")

\* operator.neg and operator.pos
ApplyUnary(op, x) ==
  IF x.t = "num"
    THEN IF op = "USub" THEN Num(-x.n, x.d, x.is_float) ELSE x
    ELSE Raise("TypeError")

\* the first exception among the values, evaluated in order
HasRaise(vals) == \E i \in 1..Len(vals) : vals[i].t = "raise"
FirstRaise(vals) ==
  vals[CHOOSE i \in 1..Len(vals) :
         /\ vals[i].t = "raise"
         /\ \A j \in 1..(i - 1) : vals[j].t # "raise"]

\* a variant of lines 80-86 that appends every argument as it is
KeepArgs(vals) == vals

RECURSIVE FlattenArgs(_)
\* calculator.py lines 80-86: list arguments are spliced in
FlattenArgs(vals) ==
  IF vals = <<>> THEN <<>>
  ELSE (IF Head(vals).t = "list" THEN Head(vals).items ELSE <<Head(vals)>>)
         \o FlattenArgs(Tail(vals))

RECURSIVE SumOf(_)
\* sum of numbers
SumOf(nums) ==
  IF Len(nums) = 1 THEN nums[1]
  ELSE ApplyBinary("Add", nums[1], SumOf(Tail(nums)))

\* statistics.mean on numbers: an int when the ints divide evenly
MeanOf(nums) ==
  LET total == SumOf(nums)
      exact == ~total.is_float /\ total.n % Len(nums) = 0
  IN  IF exact THEN Num(total.n \div Len(nums), 1, FALSE)
      ELSE Num(total.n, total.d * Len(nums), TRUE)

\* a <= b for numbers
AtMost(a, b) == a.n * b.d <= b.n * a.d

\* max(values) and min(values): the first of the greatest, of the least
MaxOf(nums) ==
  nums[CHOOSE i \in 1..Len(nums) :
         /\ \A j \in 1..Len(nums) : AtMost(nums[j], nums[i])
         /\ \A j \in 1..(i - 1) : ~AtMost(nums[i], nums[j])]
MinOf(nums) ==
  nums[CHOOSE i \in 1..Len(nums) :
         /\ \A j \in 1..Len(nums) : AtMost(nums[i], nums[j])
         /\ \A j \in 1..(i - 1) : ~AtMost(nums[j], nums[i])]

\* a == b for numbers
SameNumber(a, b) == a.n * b.d = b.n * a.d

RECURSIVE SortedNums(_)
\* sorted(values): the first of the least, then the rest sorted
SortedNums(nums) ==
  IF nums = <<>> THEN <<>>
  ELSE LET least == CHOOSE i \in 1..Len(nums) :
                      /\ \A j \in 1..Len(nums) : AtMost(nums[i], nums[j])
                      /\ \A j \in 1..(i - 1) : ~AtMost(nums[j], nums[i])
       IN  <<nums[least]>>
             \o SortedNums(SubSeq(nums, 1, least - 1) \o SubSeq(nums, least + 1, Len(nums)))

\* statistics.median: the middle value, or (data[i - 1] + data[i]) / 2
MedianOf(nums) ==
  LET data == SortedNums(nums)
      half == Len(nums) \div 2
  IN  IF Len(nums) % 2 = 1 THEN data[half + 1]
      ELSE ApplyBinary("Div", ApplyBinary("Add", data[half], data[half + 1]),
                       Num(2, 1, FALSE))

\* statistics.mode: the first met of the values met most often
ModeOf(nums) ==
  LET count(i) == Cardinality({j \in 1..Len(nums) : SameNumber(nums[j], nums[i])})
  IN  nums[CHOOSE i \in 1..Len(nums) :
             /\ \A j \in 1..Len(nums) : count(j) <= count(i)
             /\ \A j \in 1..(i - 1) : count(j) < count(i)]

RECURSIVE CommonDivisor(_, _)
\* the greatest common divisor of a natural number and a positive one
CommonDivisor(a, b) == IF a = 0 THEN b ELSE CommonDivisor(b % a, a)

\* the square root of a natural number that is a square, -1 for another
ExactRoot(n) == IF \E k \in 0..n : k * k = n THEN CHOOSE k \in 0..n : k * k = n ELSE -1

\* statistics.stdev of two values or more: the square root of the sum of the
\* squared deviations over n - 1, the variance in lowest terms.  A root that is
\* no fraction is kept as the surd of the variance: the float nearest to it
StdevOf(nums) ==
  LET m == MeanOf(nums)
      squares == [i \in 1..Len(nums) |->
                    ApplyBinary("Mult", ApplyBinary("Sub", nums[i], m),
                                ApplyBinary("Sub", nums[i], m))]
      total == SumOf(squares)
      common == CommonDivisor(total.n, total.d * (Len(nums) - 1))
      variance == Num(total.n \div common, (total.d * (Len(nums) - 1)) \div common, TRUE)
  IN  IF ExactRoot(variance.n) >= 0 /\ ExactRoot(variance.d) >= 0
        THEN Num(ExactRoot(variance.n), ExactRoot(variance.d), TRUE)
        ELSE [t |-> "surd", n |-> variance.n, d |-> variance.d]

\* FUNCTIONS[func_name](args) at line 95; a list among the arguments is a
\* TypeError in the functions of statistics, in max and in min
ApplyFunction(func_name, args) ==
  IF \E i \in 1..Len(args) : args[i].t = "list" THEN Raise("TypeError")
  ELSE CASE func_name \in {"mean", "avg", "average"} -> MeanOf(args)
         [] func_name = "median" -> MedianOf(args)
         [] func_name = "mode" -> ModeOf(args)
         [] func_name \in {"stdev", "std"} -> StdevOf(args)
         [] func_name = "range" -> ApplyBinary("Sub", MaxOf(args), MinOf(args))

\* a variant of lines 88-93 that gives 0 where a value is missing
CallWithDefault(func_name, vals) ==
  IF HasRaise(vals) THEN FirstRaise(vals)
  ELSE IF FlattenArgs(vals) = <<>> THEN Num(0, 1, FALSE)
  ELSE IF func_name \in {"stdev", "std"} /\ Len(FlattenArgs(vals)) < 2 THEN Num(0, 1, TRUE)
  ELSE ApplyFunction(func_name, FlattenArgs(vals))

\* calculator.py lines 79-95 after the arguments were evaluated
CallWith(func_name, vals) ==
  IF HasRaise(vals) THEN FirstRaise(vals)
  ELSE IF FlattenArgs(vals) = <<>> THEN Raise("ValueError")
  ELSE IF func_name \in {"stdev", "std"} /\ Len(FlattenArgs(vals)) < 2 THEN Raise("ValueError")
  ELSE ApplyFunction(func_name, FlattenArgs(vals))

RECURSIVE eval_node(_)
\* _eval_node(node), calculator.py lines 40-98
eval_node(tree) ==
  CASE tree.node = "Constant" ->
         IF tree.numeric THEN Num(tree.n, 1, FALSE) ELSE Raise("ValueError")
    [] tree.node = "List" ->
         LET vals == [i \in 1..Len(tree.elts) |-> eval_node(tree.elts[i])]
         IN  IF HasRaise(vals) THEN FirstRaise(vals) ELSE ListVal(vals)
    [] tree.node = "BinOp" ->
         IF tree.op \notin OPERATORS THEN Raise("ValueError")
         ELSE LET l == eval_node(tree.left)
                  r == eval_node(tree.right)
              IN  IF l.t = "raise" THEN l
                  ELSE IF r.t = "raise" THEN r
                  ELSE ApplyBinary(tree.op, l, r)
    [] tree.node = "UnaryOp" ->
         IF tree.op \notin OPERATORS THEN Raise("ValueError")
         ELSE LET x == eval_node(tree.operand)
              IN  IF x.t = "raise" THEN x ELSE ApplyUnary(tree.op, x)
    [] tree.node = "Call" ->
         IF tree.func.node # "Name" THEN Raise("ValueError")
         ELSE IF Lower(tree.func.id) \notin FUNCTIONS THEN Raise("ValueError")
         ELSE CallWith(Lower(tree.func.id),
                       [i \in 1..Len(tree.args) |-> eval_node(tree.args[i])])
    [] OTHER -> Raise("ValueError")

\* calculator.py lines 125-136 for the tree ast.parse gave, or its SyntaxError
CalculateTree(tree) ==
  IF tree.node = "SyntaxError" THEN Raise("ValueError")
  ELSE LET value == eval_node(tree)
       IN  IF value.t = "raise"
             THEN IF value.e \in {"ZeroDivisionError", "StatisticsError"}
                    THEN Raise("ValueError")
                    ELSE value
           ELSE IF value.t = "list" THEN Raise("ValueError")
           ELSE IF value.t = "surd" THEN value
           ELSE Num(value.n, value.d, TRUE)

\* the text of an int literal
IntText(n) == CASE n = 0 -> "0" [] n = 1 -> "1" [] n = 2 -> "2"

\* the symbol of an operator class
OperatorText(op) ==
  CASE op = "Add" -> " + " [] op = "Sub" -> " - " [] op = "Mult" -> " * "
    [] op = "Div" -> " / " [] op = "Pow" -> " ** "
    [] op = "USub" -> "-" [] op = "UAdd" -> "+" [] op = "Not" -> "not "

RECURSIVE Unparse(_)
RECURSIVE UnparseAll(_)
RECURSIVE UnparseKeywords(_)
\* the source text of a tree, every operation in parentheses: ast.parse of the
\* text gives the tree back
Unparse(tree) ==
  CASE tree.node = "Constant" ->
         IF tree.literal = "int" THEN IntText(tree.n)
         ELSE IF tree.literal = "bool" THEN (IF tree.n = 1 THEN "True" ELSE "False")
         ELSE "'s'"
    [] tree.node = "Name" -> tree.id
    [] tree.node = "Attribute" -> tree.id
    [] tree.node = "List" -> "[" \o UnparseAll(tree.elts) \o "]"
    [] tree.node = "BinOp" ->
         "(" \o Unparse(tree.left) \o OperatorText(tree.op) \o Unparse(tree.right) \o ")"
    [] tree.node = "UnaryOp" -> "(" \o OperatorText(tree.op) \o Unparse(tree.operand) \o ")"
    [] tree.node = "Call" ->
         Unparse(tree.func) \o "(" \o UnparseAll(tree.args)
           \o (IF tree.args # <<>> /\ tree.keywords # <<>> THEN ", " ELSE "")
           \o UnparseKeywords(tree.keywords) \o ")"

\* the texts of keyword arguments, separated by commas
UnparseKeywords(keywords) ==
  IF keywords = <<>> THEN ""
  ELSE Head(keywords).arg \o "=" \o Unparse(Head(keywords).value)
         \o (IF Len(keywords) > 1 THEN ", " ELSE "") \o UnparseKeywords(Tail(keywords))

\* the texts of the trees, separated by commas
UnparseAll(trees) ==
  IF trees = <<>> THEN ""
  ELSE IF Len(trees) = 1 THEN Unparse(trees[1])
  ELSE Unparse(trees[1]) \o ", " \o UnparseAll(Tail(trees))

\* the expressions the calculator is given: operands, every operation on two
\* operands, calls with up to two arguments, every function on lists of
\* numbers, as arguments and as one list, and some deeper trees.  No operation
\* is applied to the result of stdev, a surd
LeafTrees ==
  {ConstantNode(0), ConstantNode(2), ListNode(<<ConstantNode(2)>>), NameNode("x"),
   StrConstantNode, BoolConstantNode(TRUE)}
ArgumentLists ==
  {<<>>} \cup {<<x>> : x \in LeafTrees} \cup {<<ConstantNode(2), x>> : x \in LeafTrees}
DeeperTrees ==
  {BinOpNode("Div", ConstantNode(2), BinOpNode("Sub", ConstantNode(2), ConstantNode(2))),
   BinOpNode("Mult", ListNode(<<ConstantNode(2)>>), BinOpNode("Div", ConstantNode(2), ConstantNode(2))),
   BinOpNode("Mult", ListNode(<<ConstantNode(2)>>), CallNode(NameNode("mean"), <<ConstantNode(2), ConstantNode(2)>>)),
   BinOpNode("Mult", ListNode(<<ConstantNode(2)>>), CallNode(NameNode("mean"), <<ConstantNode(1), ConstantNode(2)>>)),
   CallNode(NameNode("mean"), <<ListNode(<<ListNode(<<ConstantNode(2)>>)>>)>>),
   CallNode(NameNode("range"), <<ListNode(<<>>)>>),
   CallNode(NameNode("range"), <<ConstantNode(2), UnaryOpNode("USub", ConstantNode(1)), ConstantNode(0)>>),
   CallNode(AttributeNode, <<ConstantNode(2)>>),
   CallNode(NameNode("mean"),
            <<BinOpNode("Add", ListNode(<<ConstantNode(1)>>), ListNode(<<ConstantNode(2)>>))>>),
   CallNode(NameNode("range"),
            <<BinOpNode("Mult", ListNode(<<ConstantNode(0), ConstantNode(2)>>), ConstantNode(2))>>),
   KeywordCallNode(NameNode("mean"), <<ConstantNode(1)>>, <<Keyword("x", ConstantNode(2))>>),
   KeywordCallNode(NameNode("mean"), <<>>, <<Keyword("x", ConstantNode(2))>>),
   KeywordCallNode(NameNode("range"), <<ConstantNode(0), ConstantNode(2)>>,
                   <<Keyword("key", NameNode("abs")), Keyword("x", ConstantNode(1))>>),
   BoolConstantNode(FALSE),
   UnaryOpNode("USub", BinOpNode("Div", ConstantNode(1), ConstantNode(2))),
   ListNode(<<ConstantNode(2), NameNode("x"), BinOpNode("Div", ConstantNode(2), ConstantNode(0))>>)}
NumberTrees == {ConstantNode(0), ConstantNode(1), ConstantNode(2)}
NumberLists ==
  {<<>>} \cup {<<x>> : x \in NumberTrees}
    \cup {<<x, y>> : x \in NumberTrees, y \in NumberTrees}
    \cup {<<ConstantNode(0), ConstantNode(1), ConstantNode(2)>>,
          <<ConstantNode(2), ConstantNode(0), ConstantNode(1)>>,
          <<ConstantNode(1), ConstantNode(2), ConstantNode(2)>>,
          <<ConstantNode(2), ConstantNode(1), ConstantNode(1), ConstantNode(2)>>}
ExpressionTrees ==
  LeafTrees
    \cup {BinOpNode(op, l, r) : op \in {"Add", "Sub", "Mult", "Div", "Pow"},
                                 l \in LeafTrees, r \in LeafTrees}
    \cup {UnaryOpNode(op, x) : op \in {"USub", "UAdd", "Not"}, x \in LeafTrees}
    \cup {CallNode(NameNode(f), a) : f \in {"mean", "range", "foo", "MEAN"},
                                     a \in ArgumentLists}
    \cup {CallNode(NameNode("stdev"), a) : a \in {b \in ArgumentLists : Len(b) < 2}}
    \cup {CallNode(NameNode(f), xs) : f \in FUNCTIONS, xs \in NumberLists}
    \cup {CallNode(NameNode(f), <<ListNode(xs)>>) : f \in FUNCTIONS, xs \in NumberLists}
    \cup DeeperTrees

\* a text that is no expression
NO_EXPRESSION == "2 +"
\* the trees with their texts
UnparsedTrees == {<<Unparse(tree), tree>> : tree \in ExpressionTrees}
ExpressionTexts == {unparsed[1] : unparsed \in UnparsedTrees} \cup {NO_EXPRESSION}

\* ast.parse(expression, mode='eval') on the texts of ExpressionTexts
ParseTable ==
  [text \in ExpressionTexts |->
     IF \E unparsed \in UnparsedTrees : unparsed[1] = text
       THEN (CHOOSE unparsed \in UnparsedTrees : unparsed[1] = text)[2]
       ELSE SyntaxErrorRaised]
ast_parse(expression) == ParseTable[expression]

\* calculate(expression)
calculate(expression) == CalculateTree(ast_parse(expression))

\* the calculate action of an expression
CalculateAction(expression) ==
  JObj(<<[k |-> "action", val |-> JStr("calculate")],
         [k |-> "expression", val |-> JStr(expression)]>>)

\* what the call of calculate at agent.py line 183 does, for what calculate gave
HowOf(calculated) ==
  IF calculated.t \in {"num", "surd"} THEN "result" ELSE calculated.e

InitCalculator ==
  /\ v_pc = "idle"
  /\ v_text = ""
  /\ v_out = None
  /\ v_tool = None
  /\ c_pc = "input"
  /\ c_expr \in ExpressionTexts
  /\ c_out = None
  /\ c_tool = None
  /\ d_pc = "idle"
  /\ d_action = None
  /\ d_how = "none"
  /\ d_out = None
  /\ m_pc = "idle"
  /\ conversation_history = <<>>
  /\ m_last = None
  /\ on_progress = None
  /\ sunk = <<>>
  /\ o_phase = 0
  /\ o_first = None
  /\ _client = None
  /\ _collection = None
  /\ s_pc = <<>>
  /\ s_local = <<>>
  /\ s_index = {}
  /\ s_log = <<>>
  /\ pc = "idle"
  /\ turn = 0
  /\ attempt = 0
  /\ messages = <<>>
  /\ response_text = None
  /\ cleaned_response = None
  /\ action = None
  /\ result = None
  /\ outcome = "idle"
  /\ raisedBy = "none"
  /\ script = <<>>
  /\ loopStart = 0
  /\ tools = [query |-> "unset", calculate |-> "unset"]
  /\ modelCalls = 0
  /\ turnCalls = 0
  /\ turnsStarted = 0
  /\ toolLog = <<>>

\* calculate(c_expr)
Evaluate ==
  /\ c_pc = "input"
  /\ c_out' = calculate(c_expr)
  /\ c_pc' = "evaluated"
  /\ UNCHANGED <<c_expr, c_tool>>
  /\ UNCHANGED <<agentVars, normalizerVars, dispatcherVars, sessionVars, observerVars, searchVars>>

\* execute_action on the calculate action of the expression
ExecuteCalculated ==
  /\ c_pc = "evaluated"
  /\ c_tool' = execute_action(CalculateAction(c_expr), HowOf(c_out))
  /\ c_pc' = "executed"
  /\ UNCHANGED <<c_expr, c_out>>
  /\ UNCHANGED <<agentVars, normalizerVars, dispatcherVars, sessionVars, observerVars, searchVars>>

NextCalculator ==
  \/ Evaluate
  \/ ExecuteCalculated

\* calculate, then execute_action, on every expression of ExpressionTexts
SpecCalculator == InitCalculator /\ [][NextCalculator]_vars

(***************************************************************************)
(* The dispatcher on its own: execute_action applied to an action of each  *)
(* kind, the collaborator behaving in each of its ways                     *)
(***************************************************************************)

\* the actions execute_action is given, as JSON texts: the five kinds, the
\* four scenario types, an unknown one, and actions with fields missing or of
\* another type
DispatcherTexts ==
  {"{\"action\": \"query\", \"sql\": \"select name from board_games\"}",
   "{\"action\": \"query\", \"sql\": \"SELECT 1\"}",
   "{\"action\": \"calculate\", \"expression\": \"2 + 2\"}",
   "{\"action\": \"calculate\", \"expression\": \"mean(1, 2)\"}",
   "{\"action\": \"search\", \"query\": \"cooperative family games\", \"n\": 5}",
   "{\"action\": \"search\", \"query\": \"party games\"}",
   "{\"action\": \"search\", \"n\": 5}",
   "{\"action\": \"answer\", \"text\": \"We have 15 games.\"}",
   "{\"action\": \"whatif\", \"scenario_type\": \"price_change\", \"params\": {\"target\": \"games\", \"change_percent\": 10}}",
   "{\"action\": \"whatif\", \"scenario_type\": \"volume_change\", \"params\": {\"target\": \"Catan\", \"quantity_change\": 5}}",
   "{\"action\": \"whatif\", \"scenario_type\": \"expense_change\", \"params\": {\"category\": \"rent\", \"change_percent\": 10}}",
   "{\"action\": \"whatif\", \"scenario_type\": \"hours_change\", \"params\": {\"hours_change\": 2}}",
   "{\"action\": \"whatif\", \"scenario_type\": \"hours_change\", \"params\": {}}",
   "{\"action\": \"whatif\", \"scenario_type\": \"magic\", \"params\": {\"target\": \"games\"}}",
   "{\"action\": \"whatif\", \"scenario_type\": [\"price_change\"], \"params\": {\"target\": \"games\"}}",
   "{\"action\": \"whatif\", \"scenario_type\": \"price_change\", \"params\": [10]}",
   "{\"action\": \"whatif\", \"scenario_type\": \"price_change\", \"params\": {\"scenario_type\": \"price_change\"}}",
   "{\"action\": \"whatif\", \"scenario_type\": \"price_change\"}",
   "{\"action\": \"whatif\", \"params\": {\"target\": \"games\"}}"}

DispatcherActions == {json_loads(Chars(text)).val : text \in DispatcherTexts}

InitDispatcher ==
  /\ v_pc = "idle"
  /\ v_text = ""
  /\ v_out = None
  /\ v_tool = None
  /\ c_pc = "idle"
  /\ c_expr = ""
  /\ c_out = None
  /\ c_tool = None
  /\ d_pc = "input"
  /\ d_action \in DispatcherActions
  /\ d_how \in OutcomesFor(d_action)
  /\ d_out = None
  /\ m_pc = "idle"
  /\ conversation_history = <<>>
  /\ m_last = None
  /\ on_progress = None
  /\ sunk = <<>>
  /\ o_phase = 0
  /\ o_first = None
  /\ _client = None
  /\ _collection = None
  /\ s_pc = <<>>
  /\ s_local = <<>>
  /\ s_index = {}
  /\ s_log = <<>>
  /\ pc = "idle"
  /\ turn = 0
  /\ attempt = 0
  /\ messages = <<>>
  /\ response_text = None
  /\ cleaned_response = None
  /\ action = None
  /\ result = None
  /\ outcome = "idle"
  /\ raisedBy = "none"
  /\ script = <<>>
  /\ loopStart = 0
  /\ tools = [query |-> "unset", calculate |-> "unset"]
  /\ modelCalls = 0
  /\ turnCalls = 0
  /\ turnsStarted = 0
  /\ toolLog = <<>>

\* execute_action(d_action)
Execute ==
  /\ d_pc = "input"
  /\ d_out' = execute_action(d_action, d_how)
  /\ d_pc' = "executed"
  /\ UNCHANGED <<d_action, d_how>>
  /\ UNCHANGED <<agentVars, normalizerVars, calculatorVars, sessionVars, observerVars, searchVars>>

NextDispatcher == Execute

\* execute_action on every action of DispatcherActions
SpecDispatcher == InitDispatcher /\ [][NextDispatcher]_vars

(***************************************************************************)
(* main.py: the interactive loop and the history it keeps between          *)
(* questions                                                               *)
(***************************************************************************)

\* main.py line 52
MAX_HISTORY_PAIRS == 4

\* what the user types at the prompt
FOLLOW_UP == "What are our top 3 selling games?"
UserInputs ==
  {QUESTION, "  " \o FOLLOW_UP \o " \n", "", "  \t", "/quit", " /Q ", "/exit",
   "/help", "/?", "/tables", "/samples", "/clear", "/history", " /History ",
   "/histroy"}

\* main.py line 310: Prompt.ask(...).strip()
Stripped(text) == Join(Strip(Chars(text)))

\* main.py lines 310-316, for each input: user_input and cmd
UserInputOf == [text \in UserInputs |-> Stripped(text)]
CommandOf == [text \in UserInputs |-> Lower(Stripped(text))]

\* the ways run_agent ends, and the text it gives (agent.py lines 269, 276, 329)
RunEndings == {"answer", "retry_exhausted", "turns_exhausted", "raised"}
ANSWER_TEXT == "We have 15 games."

\* process_query, main.py lines 246-280: the text of run_agent, or the apology
\* of lines 266-267 when run_agent raises an Exception
process_query(ending) ==
  CASE ending = "answer" -> ANSWER_TEXT
    [] ending = "retry_exhausted" -> RETRY_FAILURE
    [] ending = "turns_exhausted" -> TURN_FAILURE
    [] ending = "raised" -> "Sorry, I encountered an error: " \o STUB_ERROR

\* a variant of lines 358-361 with `if` for `while`: one message is popped
TrimOnce(history) ==
  IF Len(history) > MAX_HISTORY_PAIRS * 2 THEN Tail(history) ELSE history

RECURSIVE Trim(_)
\* main.py lines 358-361: pop(0) while the history is longer than max_messages
Trim(history) ==
  IF Len(history) > MAX_HISTORY_PAIRS * 2 THEN Trim(Tail(history)) ELSE history

InitSession ==
  /\ v_pc = "idle"
  /\ v_text = ""
  /\ v_out = None
  /\ v_tool = None
  /\ c_pc = "idle"
  /\ c_expr = ""
  /\ c_out = None
  /\ c_tool = None
  /\ d_pc = "idle"
  /\ d_action = None
  /\ d_how = "none"
  /\ d_out = None
  /\ m_pc = "prompt"
  /\ conversation_history = <<>>
  /\ m_last = None
  /\ on_progress = None
  /\ sunk = <<>>
  /\ o_phase = 0
  /\ o_first = None
  /\ _client = None
  /\ _collection = None
  /\ s_pc = <<>>
  /\ s_local = <<>>
  /\ s_index = {}
  /\ s_log = <<>>
  /\ pc = "idle"
  /\ turn = 0
  /\ attempt = 0
  /\ messages = <<>>
  /\ response_text = None
  /\ cleaned_response = None
  /\ action = None
  /\ result = None
  /\ outcome = "idle"
  /\ raisedBy = "none"
  /\ script = <<>>
  /\ loopStart = 0
  /\ tools = [query |-> "unset", calculate |-> "unset"]
  /\ modelCalls = 0
  /\ turnCalls = 0
  /\ turnsStarted = 0
  /\ toolLog = <<>>

\* lines 312-313: an empty input is skipped
Blank(text) ==
  /\ m_pc = "prompt"
  /\ UserInputOf[text] = ""
  /\ m_last' = [kind |-> "blank"]
  /\ UNCHANGED <<m_pc, conversation_history>>
  /\ UNCHANGED <<agentVars, normalizerVars, calculatorVars, dispatcherVars, observerVars, searchVars>>

\* lines 318-322: /quit, /exit and /q leave the loop
Quit(text) ==
  /\ m_pc = "prompt"
  /\ CommandOf[text] \in {"/quit", "/exit", "/q"}
  /\ m_pc' = "quit"
  /\ m_last' = [kind |-> "quit"]
  /\ UNCHANGED conversation_history
  /\ UNCHANGED <<agentVars, normalizerVars, calculatorVars, dispatcherVars, observerVars, searchVars>>

\* lines 324-339 and 346-349: the commands that print something, and the
\* unknown ones
Command(text) ==
  /\ m_pc = "prompt"
  /\ UserInputOf[text] # ""
  /\ SubSeq(CommandOf[text], 1, 1) = "/"
  /\ CommandOf[text] \notin {"/quit", "/exit", "/q", "/history"}
  /\ m_last' = [kind |-> "command"]
  /\ UNCHANGED <<m_pc, conversation_history>>
  /\ UNCHANGED <<agentVars, normalizerVars, calculatorVars, dispatcherVars, observerVars, searchVars>>

\* lines 341-344: /history clears the history
ClearHistory(text) ==
  /\ m_pc = "prompt"
  /\ CommandOf[text] = "/history"
  /\ conversation_history' = <<>>
  /\ m_last' = [kind |-> "history"]
  /\ UNCHANGED m_pc
  /\ UNCHANGED <<agentVars, normalizerVars, calculatorVars, dispatcherVars, observerVars, searchVars>>

\* lines 351-361: a question is processed, whatever way its run ends; the pair
\* is appended and the history trimmed
Ask(text, ending) ==
  /\ m_pc = "prompt"
  /\ UserInputOf[text] # ""
  /\ SubSeq(CommandOf[text], 1, 1) # "/"
  /\ conversation_history' =
       Trim(conversation_history
              \o <<Message("user", UserInputOf[text]),
                   Message("assistant", process_query(ending))>>)
  /\ m_last' = [kind |-> "question", query |-> UserInputOf[text],
                answer |-> process_query(ending)]
  /\ UNCHANGED m_pc
  /\ UNCHANGED <<agentVars, normalizerVars, calculatorVars, dispatcherVars, observerVars, searchVars>>

\* lines 363-366: Ctrl-C at the prompt or while the question is being
\* processed (KeyboardInterrupt is no Exception, so line 266 lets it through);
\* the loop goes on
Interrupted ==
  /\ m_pc = "prompt"
  /\ m_last' = [kind |-> "interrupt"]
  /\ UNCHANGED <<m_pc, conversation_history>>
  /\ UNCHANGED <<agentVars, normalizerVars, calculatorVars, dispatcherVars, observerVars, searchVars>>

\* lines 367-369: the end of the input leaves the loop
EndOfInput ==
  /\ m_pc = "prompt"
  /\ m_pc' = "quit"
  /\ m_last' = [kind |-> "eof"]
  /\ UNCHANGED conversation_history
  /\ UNCHANGED <<agentVars, normalizerVars, calculatorVars, dispatcherVars, observerVars, searchVars>>

NextSession ==
  \/ \E text \in UserInputs : Blank(text)
  \/ \E text \in UserInputs : Quit(text)
  \/ \E text \in UserInputs : Command(text)
  \/ \E text \in UserInputs : ClearHistory(text)
  \/ \E text \in UserInputs, ending \in RunEndings : Ask(text, ending)
  \/ Interrupted
  \/ EndOfInput

\* the interactive loop of main
SpecSession == InitSession /\ [][NextSession]_vars

(***************************************************************************)
(* search.py: two sessions calling search_games at once (SpecSearch)       *)
(***************************************************************************)

\* the sessions that share the module-level _client and _collection
Sessions == {1, 2}

\* line 74: the ids of the rows query_db gives for the board_games table
Ids == {"1", "2"}

\* a call made on the index library by a session
Call(op, p) == [op |-> op, by |-> p]

\* the calls of one kind in the log
CallsOf(op) == {i \in 1..Len(s_log) : s_log[i].op = op}

\* the locals of a session before it calls search_games
NoLocals == [collection |-> None, existing |-> {}, n_results |-> 0, results |-> None]

InitSearch ==
  /\ v_pc = "idle"
  /\ v_text = ""
  /\ v_out = None
  /\ v_tool = None
  /\ c_pc = "idle"
  /\ c_expr = ""
  /\ c_out = None
  /\ c_tool = None
  /\ d_pc = "idle"
  /\ d_action = None
  /\ d_how = "none"
  /\ d_out = None
  /\ m_pc = "idle"
  /\ conversation_history = <<>>
  /\ m_last = None
  /\ on_progress = None
  /\ sunk = <<>>
  /\ o_phase = 0
  /\ o_first = None
  /\ _client = None
  /\ _collection = None
  /\ s_pc = [p \in Sessions |-> "idle"]
  /\ s_local = [p \in Sessions |-> NoLocals]
  /\ s_index = {}
  /\ s_log = <<>>
  /\ pc = "idle"
  /\ turn = 0
  /\ attempt = 0
  /\ messages = <<>>
  /\ response_text = None
  /\ cleaned_response = None
  /\ action = None
  /\ result = None
  /\ outcome = "idle"
  /\ raisedBy = "none"
  /\ script = <<>>
  /\ loopStart = 0
  /\ tools = [query |-> "unset", calculate |-> "unset"]
  /\ modelCalls = 0
  /\ turnCalls = 0
  /\ turnsStarted = 0
  /\ toolLog = <<>>

\* what a step of search leaves alone
SearchFrame ==
  UNCHANGED <<agentVars, normalizerVars, calculatorVars, dispatcherVars, sessionVars, observerVars>>

\* line 97: a session calls search_games, which calls _get_collection
search_games(p) ==
  /\ s_pc[p] = "idle"
  /\ s_pc' = [s_pc EXCEPT ![p] = "get_collection"]
  /\ UNCHANGED <<_client, _collection, s_local, s_index, s_log>>
  /\ SearchFrame

\* lines 20-21: _get_collection returns the handle when there is one
GetCollection(p) ==
  /\ s_pc[p] = "get_collection"
  /\ IF _collection # None
       THEN /\ s_local' = [s_local EXCEPT ![p].collection = _collection]
            /\ s_pc' = [s_pc EXCEPT ![p] = "count"]
       ELSE /\ s_pc' = [s_pc EXCEPT ![p] = "make_client"]
            /\ UNCHANGED s_local
  /\ UNCHANGED <<_client, _collection, s_index, s_log>>
  /\ SearchFrame

\* lines 23-26: no handle was seen, a client is made
MakeClient(p) ==
  /\ s_pc[p] = "make_client"
  /\ _client' = [t |-> "client", by |-> p]
  /\ s_log' = Append(s_log, Call("PersistentClient", p))
  /\ s_pc' = [s_pc EXCEPT ![p] = "make_collection"]
  /\ UNCHANGED <<_collection, s_local, s_index>>
  /\ SearchFrame

\* lines 28-33: the handle is made from the module's client and returned
MakeCollection(p) ==
  /\ s_pc[p] = "make_collection"
  /\ _collection' = [t |-> "collection", by |-> p, client |-> _client.by]
  /\ s_local' = [s_local EXCEPT ![p].collection = _collection']
  /\ s_log' = Append(s_log, Call("get_or_create_collection", p))
  /\ s_pc' = [s_pc EXCEPT ![p] = "count"]
  /\ UNCHANGED <<_client, s_index>>
  /\ SearchFrame

\* lines 100-101: the index is initialized when it counts no entry
Count(p) ==
  /\ s_pc[p] = "count"
  /\ s_pc' = [s_pc EXCEPT ![p] = IF Cardinality(s_index) = 0 THEN "existing" ELSE "n_results"]
  /\ UNCHANGED <<_client, _collection, s_local, s_index, s_log>>
  /\ SearchFrame

\* lines 42-46: init_search_index reads the ids the index holds
Existing(p) ==
  /\ s_pc[p] = "existing"
  /\ s_local' = [s_local EXCEPT ![p].collection = _collection, ![p].existing = s_index]
  /\ s_pc' = [s_pc EXCEPT ![p] = IF s_index # {} THEN "delete" ELSE "add"]
  /\ UNCHANGED <<_client, _collection, s_index, s_log>>
  /\ SearchFrame

\* line 47: the ids read are deleted
Delete(p) ==
  /\ s_pc[p] = "delete"
  /\ s_index' = s_index \ s_local[p].existing
  /\ s_log' = Append(s_log, [op |-> "delete", by |-> p, ids |-> s_index \cap s_local[p].existing])
  /\ s_pc' = [s_pc EXCEPT ![p] = "add"]
  /\ UNCHANGED <<_client, _collection, s_local>>
  /\ SearchFrame

\* lines 50-83: the rows are loaded and added; the library keeps one entry for
\* an id, and an id it already holds is either skipped or refused with an
\* error, as the library's version has it
Add(p) ==
  /\ s_pc[p] = "add"
  /\ \E refused \in {FALSE, Ids \cap s_index # {}} :
       /\ s_log' = Append(s_log, [op |-> "add", by |-> p, ids |-> Ids \cap s_index])
       /\ IF refused
            THEN /\ s_pc' = [s_pc EXCEPT ![p] = "raised"]
                 /\ UNCHANGED s_index
            ELSE /\ s_index' = s_index \cup Ids
                 /\ s_pc' = [s_pc EXCEPT ![p] = "n_results"]
  /\ UNCHANGED <<_client, _collection, s_local>>
  /\ SearchFrame

\* line 106: n_results is the count of the index, at most n
NResults(p) ==
  /\ s_pc[p] = "n_results"
  /\ s_local' = [s_local EXCEPT ![p].n_results = Cardinality(s_index)]
  /\ s_pc' = [s_pc EXCEPT ![p] = "query"]
  /\ UNCHANGED <<_client, _collection, s_index, s_log>>
  /\ SearchFrame

\* lines 104-120: the query runs on the entries the index holds then
Query(p) ==
  /\ s_pc[p] = "query"
  /\ s_local' = [s_local EXCEPT ![p].results = s_index]
  /\ s_pc' = [s_pc EXCEPT ![p] = "done"]
  /\ UNCHANGED <<_client, _collection, s_index, s_log>>
  /\ SearchFrame

NextSearch ==
  \E p \in Sessions :
    \/ search_games(p)
    \/ GetCollection(p)
    \/ MakeClient(p)
    \/ MakeCollection(p)
    \/ Count(p)
    \/ Existing(p)
    \/ Delete(p)
    \/ Add(p)
    \/ NResults(p)
    \/ Query(p)

\* two sessions of search_games on an empty index, interleaved call by call
SpecSearch == InitSearch /\ [][NextSearch]_vars

(***************************************************************************)
(* Properties of run_agent (Spec, FairSpec)                                *)
(***************************************************************************)

\* the stub's reply to its call number n, counted from 0, for a call already made
ReplyAt(n) == IF n < Len(script) THEN script[n + 1] ELSE Replayed(n, loopStart)

\* the stub's reply to the i-th call of the current turn, counted from 1
TurnReply(i) == ReplyAt(modelCalls - turnCalls + i - 1)

\* the reply is a text that validate_action turns down
FailsValidation(r) == r \in Responses /\ NormalizerOf[r].status = "none"

\* the reply is a text that validate_action accepts as an Answer action
IsValidAnswer(r) ==
  /\ r \in Responses
  /\ NormalizerOf[r].status = "ok"
  /\ ActionType(NormalizerOf[r].action) = "answer"

\* the variable action holds a validated action of the given kind
HoldsAction(kinds) ==
  IF action = None THEN FALSE ELSE ActionType(action) \in kinds

ToolKinds == {"query", "calculate", "search", "whatif"}

\* C1: the model is called at most MAX_RETRIES times within one turn, at most
\* MAX_TURNS turns are started, and the turn and attempt indexes stay within
\* [0, MAX_TURNS) and [0, MAX_RETRIES)
C1_BudgetsRespected ==
  /\ turnCalls <= MAX_RETRIES
  /\ turnsStarted <= MAX_TURNS
  /\ turn \in 0..(MAX_TURNS - 1)
  /\ attempt \in 0..(MAX_RETRIES - 1)
  /\ turnsStarted = turn + 1
  /\ modelCalls <= MAX_TURNS * MAX_RETRIES

\* C1 witness: the last turn is under way and has used all its attempts
C1_Witness == turnsStarted = MAX_TURNS /\ turnCalls = MAX_RETRIES

\* the model calls run_agent can still make: the attempts left in this turn and
\* all attempts of the turns after it
RemainingBudget == (MAX_TURNS - turn - 1) * MAX_RETRIES + (MAX_RETRIES - turnCalls)

\* C2: run_agent always terminates; every model call consumes an attempt or a
\* turn of the remaining budget; and, all model and tool calls returning, the run
\* ends with the answer text, the retry-exhaustion string or the turn-exhaustion
\* string
C2_TerminatesInThreeOutcomes ==
  /\ <>(pc = "done")
  /\ [][modelCalls' # modelCalls =>
          RemainingBudget' < RemainingBudget /\ RemainingBudget' >= 0]_vars
  /\ [](pc = "done" /\ raisedBy \notin {"call_llm", "execute_action"} =>
          outcome \in {"answer", "retry_exhausted", "turns_exhausted"})

\* all attempts of the current turn have been made and have failed validation
AttemptsExhausted ==
  /\ pc \in {"check", "after_retries"}
  /\ action = None
  /\ turnCalls = MAX_RETRIES

\* C3: once all MAX_RETRIES attempts of a turn have failed validation, the run
\* returns the retry-exhaustion string with no further model call, tool dispatch,
\* appended message or turn, however many turns remain
C3_RetryExhaustionEndsRun ==
  [][AttemptsExhausted =>
       /\ modelCalls' = modelCalls
       /\ toolLog' = toolLog
       /\ messages' = messages
       /\ turn' = turn
       /\ turnsStarted' = turnsStarted
       /\ \/ AttemptsExhausted'
          \/ pc' = "done" /\ outcome' = "retry_exhausted" /\ result' = RETRY_FAILURE]_vars

\* C3 witness: the run ended by retry exhaustion in its third turn
C3_Witness ==
  /\ pc = "done"
  /\ outcome = "retry_exhausted"
  /\ result = RETRY_FAILURE
  /\ turn = 2
  /\ Len(toolLog) = 2

\* a model output has validated to an Answer action and is not yet returned
AnswerValidated ==
  /\ pc \in {"check", "after_retries"}
  /\ HoldsAction({"answer"})

\* C4: once a response validates to an Answer action, the run returns that
\* action's text, with no model call, tool dispatch or appended message after it
C4_AnswerEndsRun ==
  [][AnswerValidated =>
       /\ modelCalls' = modelCalls
       /\ toolLog' = toolLog
       /\ messages' = messages
       /\ \/ AnswerValidated' /\ action' = action
          \/ /\ pc' = "done"
             /\ outcome' = "answer"
             /\ result' = GetKey(action, "text").v
             /\ JStr(result') = GetKey(json_loads(Chars(response_text)).val, "text")]_vars

\* C4 witness: the run returned an answer after two tool turns
C4_Witness ==
  /\ pc = "done"
  /\ outcome = "answer"
  /\ result = "We have 15 games."
  /\ Len(toolLog) = 2

\* a validated tool action is about to be dispatched
ToolActionValidated ==
  /\ pc = "after_retries"
  /\ HoldsAction(ToolKinds)

\* json.loads of the canonical text validate_action returns for each reply
CanonicalParse == [r \in Responses |-> json_loads(Chars(NormalizerOf[r].text))]

C6_TurnExhaustionDistinct ==
  /\ TURN_FAILURE # RETRY_FAILURE
  /\ pc = "done" /\ outcome # "raised" /\ Len(toolLog) = MAX_TURNS =>
       outcome = "turns_exhausted"
  /\ outcome = "turns_exhausted" =>
       /\ result = TURN_FAILURE
       /\ Len(toolLog) = MAX_TURNS
       /\ turnsStarted = MAX_TURNS
       /\ HoldsAction(ToolKinds)
  /\ outcome = "retry_exhausted" =>
       /\ result = RETRY_FAILURE
       /\ turnCalls = MAX_RETRIES
       /\ action = None
       /\ Len(toolLog) = turn

\* C6 witness: the run ended by turn exhaustion
C6_Witness ==
  /\ pc = "done"
  /\ outcome = "turns_exhausted"
  /\ result = TURN_FAILURE
  /\ Len(toolLog) = MAX_TURNS

\* the text is a JSON object that is a Query action whose sql is a string that,
\* trimmed and upper-cased, does not start with SELECT
IsNonSelectQuery(r) ==
  LET parsed == json_loads(Chars(r))
  IN  /\ parsed.ok
      /\ parsed.val.t = "obj"
      /\ HasKey(parsed.val, "action")
      /\ GetKey(parsed.val, "action") = JStr("query")
      /\ HasStr(parsed.val, "sql")
      /\ ~StartsWithAt(Upper(Strip(Chars(GetKey(parsed.val, "sql").v))), 1, "SELECT")

\* the replies of the stub that are such queries
NonSelectQueries == {r \in Responses : IsNonSelectQuery(r)}

\* C7: the dispatcher never runs a query whose sql, trimmed and upper-cased, does
\* not start with SELECT; and against a stub that always returns a Query action
\* with such sql the run makes exactly MAX_RETRIES model calls, all in the first
\* turn, and returns the retry-exhaustion string
C7_OnlySelectIsExecuted ==
  /\ \A i \in 1..Len(toolLog) :
       ActionType(toolLog[i]) = "query" =>
         /\ HasStr(toolLog[i], "sql")
         /\ StartsWithAt(Upper(Strip(Chars(GetKey(toolLog[i], "sql").v))), 1, "SELECT")
  /\ (\A n \in 1..Len(script) : script[n] \in NonSelectQueries) =>
       /\ toolLog = <<>>
       /\ turn = 0
       /\ modelCalls <= MAX_RETRIES
       /\ pc = "done" =>
            /\ outcome = "retry_exhausted"
            /\ result = RETRY_FAILURE
            /\ modelCalls = MAX_RETRIES

\* C7 witness: the run against the stub that always returns the non-SELECT query
\* has ended
C7_Witness ==
  /\ pc = "done"
  /\ script = <<R_NOT_SELECT>>
  /\ loopStart = 1
  /\ modelCalls = MAX_RETRIES

\* C8: when the first k-1 responses of a turn fail validation and the k-th is a
\* valid Answer, the run returns that answer's text after exactly k model calls
\* in that turn, without advancing the turn index
C8_AnswerAfterFailedAttempts ==
  \A k \in 1..MAX_RETRIES :
    ( /\ turnCalls = k
      /\ pc # "validate"
      /\ IsValidAnswer(TurnReply(k))
      /\ \A i \in 1..(k - 1) : FailsValidation(TurnReply(i)) )
    => /\ pc \in {"check", "after_retries", "done"}
       /\ attempt = k - 1
       /\ turn = Len(toolLog)
       /\ pc = "done" =>
            /\ outcome = "answer"
            /\ result = GetKey(NormalizerOf[TurnReply(k)].action, "text").v

\* C8 witness: one malformed response, then a valid Answer, returned on the
\* second attempt of the second turn
C8_Witness ==
  /\ pc = "done"
  /\ outcome = "answer"
  /\ turn = 1
  /\ turnCalls = 2
  /\ TurnReply(1) = R_NOT_JSON
  /\ TurnReply(2) = R_ANSWER

(***************************************************************************)
(* Properties of validate_action and execute_action (SpecNormalizer)       *)
(***************************************************************************)

\* the text is one JSON object that is an action of the protocol: its tag names
\* a kind and the fields of that kind are present with their declared types
WellFormedAction(text, kind) ==
  LET parsed == json_loads(Chars(text))
      data == parsed.val
  IN  /\ parsed.ok
      /\ data.t = "obj"
      /\ HasKey(data, "action")
      /\ GetKey(data, "action") = JStr(kind)
      /\ CASE kind = "query" ->
                /\ HasStr(data, "sql")
                /\ StartsWithAt(Upper(Strip(Chars(GetKey(data, "sql").v))), 1, "SELECT")
           [] kind = "calculate" -> HasStr(data, "expression")
           [] kind = "search" ->
                /\ HasStr(data, "query")
                /\ HasKey(data, "n")
                /\ GetKey(data, "n").t = "int"
           [] kind = "whatif" ->
                /\ HasStr(data, "scenario_type")
                /\ HasKey(data, "params")
                /\ GetKey(data, "params").t = "obj"
           [] kind = "answer" -> HasStr(data, "text")
           [] OTHER -> FALSE

ActionKinds == {"query", "calculate", "search", "whatif", "answer"}

\* C9: a well-formed action of any of the five kinds validates to an action of
\* that kind, which (when it is not an Answer) reaches the dispatcher
C9_FiveKindsAccepted ==
  \A kind \in ActionKinds :
    v_pc # "input" /\ WellFormedAction(v_text, kind) =>
      /\ v_out.status = "ok"
      /\ ActionType(v_out.action) = kind

\* C10: a text whose top-level JSON value, after whitespace and fence stripping,
\* is not an object (an array around a valid action object, say) yields none
C10_TopLevelObjectOnly ==
  LET parsed == json_loads(StripFence(Strip(Chars(v_text))))
  IN  v_pc # "input" /\ parsed.ok /\ parsed.val.t # "obj" => v_out.status # "ok"

\* t is the text s without the whitespace before and after it
IsTrimOf(t, s) ==
  \E i \in 1..Len(s) : \E j \in i..Len(s) :
    /\ t = SubSeq(s, i, j)
    /\ SubSeq(s, i, i) \notin StripChars
    /\ SubSeq(s, j, j) \notin StripChars
    /\ \A k \in (1..(i - 1)) \cup ((j + 1)..Len(s)) : SubSeq(s, k, k) \in StripChars

\* json.loads takes the text as it stands and the schema check passes its object
DirectlyAccepted(text) ==
  LET parsed == json_loads(Chars(text))
  IN  /\ parsed.ok
      /\ parsed.val.t = "obj"
      /\ validate_fields(parsed.val).status = "ok"

\* C11 as stated: for a text that direct JSON parsing accepts as a schema-valid
\* action object, validate_action returns the parsed object and, as canonical
\* text, the input text itself
C11_DirectParseReturnsInput ==
  v_pc # "input" /\ DirectlyAccepted(v_text) =>
    /\ v_out.status = "ok"
    /\ v_out.action = json_loads(Chars(v_text)).val
    /\ v_out.text = v_text

\* C11 amended: for such a text validate_action returns the parsed object
\* unchanged and, as canonical text, the input text without the whitespace
\* around it
C11_DirectParseReturnsTrimmedInput ==
  v_pc # "input" /\ DirectlyAccepted(v_text) =>
    /\ v_out.status = "ok"
    /\ v_out.action = json_loads(Chars(v_text)).val
    /\ IsTrimOf(v_out.text, v_text)

\* C11 witness: a directly parseable action between whitespace was validated
C11_Witness ==
  /\ v_pc = "validated"
  /\ v_text = " \n{\"action\": \"calculate\", \"expression\": \"2 + 2\"}\n"
  /\ v_out.status = "ok"
  /\ v_out.text = "{\"action\": \"calculate\", \"expression\": \"2 + 2\"}"

\* prose before and after an embedded object
ProseLeads == {"", "Sure! Here is the action: ", "Use {curly} braces: "}
ProseTrails == {"", " Let me know."}

\* C12: for a text <prose>{valid action}<prose>, whatever the prose on either
\* side, validate_action returns the embedded action object and a canonical
\* text with none of the prose, the object's own text
C12_ProseWrappedExtracted ==
  \A lead \in ProseLeads : \A object \in ObjectTexts : \A trail \in ProseTrails :
    /\ v_pc # "input"
    /\ DirectlyAccepted(object)
    /\ v_text = lead \o object \o trail
    => /\ v_out.status = "ok"
       /\ v_out.action = json_loads(Chars(object)).val
       /\ v_out.text = object

\* string values with literal control characters: raw as written between the
\* quotes of the JSON text, val the string that text denotes
ControlCharTexts ==
  {[raw |-> "Two\nlines\tand a tab.", val |-> "Two\nlines\tand a tab."],
   [raw |-> "A\\\\\rB", val |-> "A\\\rB"]}

AnswerWith(raw) == "{\"action\": \"answer\", \"text\": \"" \o raw \o "\"}"

\* C13: for an action JSON with a literal newline, tab or carriage return in a
\* string value, the repaired text parses, the parsed value has the original
\* control characters in their places, and validate_action returns that object
\* with the repaired text
C13_RepairRoundTrips ==
  \A c \in ControlCharTexts :
    v_pc # "input" /\ v_text = AnswerWith(c.raw) =>
      LET repaired == json_loads(fix_json_newlines(Chars(v_text)))
      IN  /\ ~json_loads(Chars(v_text)).ok
          /\ repaired.ok
          /\ GetKey(repaired.val, "text") = JStr(c.val)
          /\ v_out.status = "ok"
          /\ v_out.action = repaired.val
          /\ json_loads(Chars(v_out.text)) = repaired

\* C13 witness: the text with a literal carriage return after an escaped
\* backslash was repaired and validated
C13_Witness ==
  /\ v_pc = "validated"
  /\ v_text = AnswerWith("A\\\\\rB")
  /\ v_out.status = "ok"
  /\ GetKey(v_out.action, "text") = JStr("A\\\rB")
  /\ v_out.text = AnswerWith("A\\\\\\rB")

\* what may stand before the first object of a text: no opening brace
BraceFreeLeads == {lead \in LeadTexts : FindChar(Chars(lead), "{", 1) = 0}

\* the text after an object holds a further object
SECOND_OBJECT == "\n\n{\"action\": \"calculate\", \"expression\": \"fake\"}"

\* C14: of a response with several objects, or an object and prose, the action
\* returned is the first complete object; a first object the schema accepts is
\* returned; and the canonical text of every success is that one object: read
\* as JSON it is the returned action and nothing more
C14_FirstObjectIsolated ==
  /\ v_pc # "input" /\ v_out.status = "ok" =>
       LET canonical == json_loads(Chars(v_out.text))
       IN  canonical.ok /\ canonical.val.t = "obj" /\ canonical.val = v_out.action
  /\ \A lead \in BraceFreeLeads : \A object \in ObjectTexts : \A trail \in TrailTexts :
       v_pc # "input" /\ v_text = lead \o object \o trail =>
         LET first == json_loads(fix_json_newlines(Chars(object)))
         IN  /\ first.ok /\ v_out.status = "ok" => v_out.action = first.val
             /\ DirectlyAccepted(object) => v_out.status = "ok"

\* C14 witness: a valid query followed by a second object was validated to the
\* query alone
C14_Witness ==
  /\ v_pc = "validated"
  /\ v_text = "{\"action\": \"query\", \"sql\": \"select name from board_games\"}" \o SECOND_OBJECT
  /\ v_out.status = "ok"
  /\ v_out.text = "{\"action\": \"query\", \"sql\": \"select name from board_games\"}"

\* C15: validate_action is total: for every input text it returns an action or
\* none together with a text, and never raises
C15_ValidateActionTotal ==
  v_pc # "input" => v_out.status \in {"ok", "none"}

\* C16: execute_action never raises for a validated action: whatever the
\* collaborator of the action's kind does (here the calculator, on every
\* expression), a result comes back, with is_error true when the collaborator
\* failed
C16_ExecuteActionNeverRaises ==
  c_pc = "executed" =>
    /\ c_tool.status = "ok"
    /\ c_tool.is_error = (c_out.t = "raise")

\* C17: every failure of the evaluator is an InvalidExpression failure (a
\* ValueError, the one class calculate documents and execute_action catches),
\* and the dispatcher returns it as a result with is_error true
C17_EvaluatorFailuresReturned ==
  /\ c_pc # "input" /\ c_out.t = "raise" => c_out.e = "ValueError"
  /\ c_pc = "executed" /\ c_out.t = "raise" =>
       c_tool.status = "ok" /\ c_tool.is_error

\* C18: a model call or a tool call that fails (a timeout is one way to fail)
\* does not make run_agent raise: no run ends with the exception of call_llm
\* or of execute_action
C18_CallFailuresDoNotRaise ==
  raisedBy \notin {"call_llm", "execute_action"}

\* the tool of the validated action is about to run and returns an error
ToolErrorReturned ==
  /\ pc = "after_retries"
  /\ action # None
  /\ ActionType(action) # "answer"
  /\ execute_action(action, tools'[ActionType(action)]).status = "ok"
  /\ execute_action(action, tools'[ActionType(action)]).is_error

\* C19: a tool result with is_error true does not end the run and takes no
\* retry: the error text becomes the last, user, message of the conversation,
\* which the next model call is made with, and one turn is used up as for a
\* successful tool call: the next turn starts with all its attempts, or after
\* the last turn the loop ends
C19_ToolErrorCostsOneTurn ==
  [][ToolErrorReturned =>
       /\ outcome' = "running"
       /\ result' = result
       /\ modelCalls' = modelCalls
       /\ Len(messages') = Len(messages) + 2
       /\ messages'[Len(messages')] =
            Message("user", "Tool result:\n"
                              \o execute_action(action, tools'[ActionType(action)]).text)
       /\ IF turn + 1 < MAX_TURNS
            THEN /\ turn' = turn + 1
                 /\ turnsStarted' = turnsStarted + 1
                 /\ attempt' = 0
                 /\ turnCalls' = 0
                 /\ pc' = "call_llm"
            ELSE turn' = turn /\ pc' = "loop_end"]_vars

\* C19 witness: a query failed in the first turn, and the second turn is about
\* to call the model with the error text as the last message
C19_Witness ==
  /\ pc = "call_llm"
  /\ outcome = "running"
  /\ turn = 1
  /\ attempt = 0
  /\ messages[Len(messages)] = Message("user", "Tool result:\nQuery error: " \o STUB_ERROR)

\* the query of the validated action is about to run and finds no rows
QueryFindsNoRows ==
  /\ pc = "after_retries"
  /\ action # None
  /\ ActionType(action) = "query"
  /\ tools'["query"] = "empty"

\* C20 as stated: a Query action whose execution returns zero rows yields the
\* result text "no results" with is_error false
C20_NoRowsTextIsNoResults ==
  [][QueryFindsNoRows =>
       /\ execute_action(action, "empty") = Returned("no results", FALSE)
       /\ messages'[Len(messages')] = Message("user", "Tool result:\nno results")]_vars

\* C20 amended: a Query action whose execution returns zero rows yields the
\* result text "Query returned no results." with is_error false, and that
\* text is what the conversation receives
C20_NoRowsIsNotAnError ==
  [][QueryFindsNoRows =>
       /\ execute_action(action, "empty") = Returned("Query returned no results.", FALSE)
       /\ messages'[Len(messages')] =
            Message("user", "Tool result:\nQuery returned no results.")
       /\ outcome' = "running"]_vars

\* C20 witness: a query found no rows in the first turn and its result text is
\* the last message
C20_Witness ==
  /\ pc = "call_llm"
  /\ turn = 1
  /\ tools["query"] = "empty"
  /\ messages[Len(messages)] = Message("user", "Tool result:\nQuery returned no results.")

\* what run_scenario gives for the whatif action and the behaviour of its
\* scenario function
ScenarioOf(act, how) ==
  run_scenario(GetKey(act, "scenario_type"), GetKey(act, "params"), how)

\* the whatif action has its fields, and run_scenario is called and returns
ScenarioReturned ==
  /\ d_pc = "executed"
  /\ ActionType(d_action) = "whatif"
  /\ HasKey(d_action, "scenario_type")
  /\ HasKey(d_action, "params")
  /\ GetKey(d_action, "params").t = "obj"
  /\ ~HasKey(GetKey(d_action, "params"), "scenario_type")
  /\ ScenarioOf(d_action, d_how).t = "obj"

\* C21: for a WhatIf action, a mapping with an error field from the scenario
\* collaborator gives is_error true with the error message in the text, and
\* is_error is false only for a mapping without an error field
C21_ErrorFieldIsAnError ==
  /\ ScenarioReturned /\ HasKey(ScenarioOf(d_action, d_how), "error") =>
       /\ d_out.status = "ok"
       /\ d_out.is_error
       /\ d_out.text = "Scenario error: " \o GetKey(ScenarioOf(d_action, d_how), "error").v
  /\ d_pc = "executed" /\ ActionType(d_action) = "whatif" /\ d_out.status = "ok"
       /\ ~d_out.is_error =>
         ScenarioReturned /\ ~HasKey(ScenarioOf(d_action, d_how), "error")

\* C21 witness: the scenario function of a known type returned an error field,
\* and the dispatcher returned it as an error
C21_Witness ==
  /\ d_pc = "executed"
  /\ ScenarioReturned
  /\ GetKey(d_action, "scenario_type") = JStr("volume_change")
  /\ d_how = "error_field"
  /\ d_out = Returned("Scenario error: " \o STUB_ERROR, TRUE)

\* the reply is one JSON value, and validate_action does not accept it: it
\* fails the field, type or SELECT-prefix checks
JsonButInvalid(text) ==
  /\ text \in Responses
  /\ json_loads(Chars(text)).ok
  /\ NormalizerOf[text].status # "ok"

\* C22: a response that is valid JSON but fails the field, type or
\* SELECT-prefix checks is handled exactly like one that cannot be parsed:
\* validating it leaves the controller where validating the unparseable text
\* leaves it (no action, the run still going, nothing raised), so that the
\* model calls, the retries and the outcome that follow are the same
C22_InvalidHandledLikeUnparseable ==
  [][pc = "validate" /\ JsonButInvalid(response_text) =>
       /\ NormalizerOf[R_NOT_JSON].status = "none"
       /\ pc' = "check"
       /\ action' = NormalizerOf[R_NOT_JSON].action
       /\ outcome' = outcome
       /\ raisedBy' = raisedBy]_vars

\* C23: within one run_agent invocation the conversation is append-only: at
\* every step the message sequence is the previous sequence with zero or more
\* messages added at the end; none is removed, reordered or rewritten
C23_ConversationAppendOnly ==
  [][\E added \in 0..2 :
       /\ Len(messages') = Len(messages) + added
       /\ \A i \in 1..Len(messages) : messages'[i] = messages[i]]_vars

\* C23 witness: a run that appended two retry pairs and then the pair of a tool
\* call, on top of the caller's history and the question
C23_Witness ==
  /\ Len(messages) >= 9
  /\ messages[Len(messages) - 2].content = RETRY_PROMPT
  /\ messages[Len(messages) - 4].content = RETRY_PROMPT
  /\ messages[Len(messages) - 1].role = "assistant"
  /\ Len(toolLog) = 1

\* the last n messages of a history
LastMessages(history, n) ==
  IF Len(history) <= n THEN history
  ELSE SubSeq(history, Len(history) - n + 1, Len(history))

\* the history is a sequence of whole pairs, a user message first in each
WholePairs(history) ==
  /\ Len(history) % 2 = 0
  /\ \A i \in 1..Len(history) :
       history[i].role = IF i % 2 = 1 THEN "user" ELSE "assistant"

\* C24: in the interactive loop, after every processed question, also one
\* whose run failed or raised, the history is the history before with the
\* question's user/assistant pair added, cut from the oldest end to at most
\* MAX_HISTORY_PAIRS pairs (8 messages); and the history always has even
\* length, starts with a user message and holds whole pairs in order
C24_HistoryGrowsByPairAndIsTrimmed ==
  /\ [](/\ WholePairs(conversation_history)
        /\ Len(conversation_history) <= 8
        /\ Len(conversation_history) <= MAX_HISTORY_PAIRS * 2)
  /\ [][m_pc = "prompt" /\ m_last'.kind = "question" =>
          conversation_history' =
            LastMessages(conversation_history
                           \o <<Message("user", m_last'.query),
                                Message("assistant", m_last'.answer)>>,
                         8)]_vars

\* C24 witness: a sixth question, whose run raised, was processed with the
\* history full: the oldest pair went and the apology is the last message
C24_Witness ==
  /\ m_last = [kind |-> "question", query |-> FOLLOW_UP,
               answer |-> "Sorry, I encountered an error: " \o STUB_ERROR]
  /\ Len(conversation_history) = 8
  /\ conversation_history[1] = Message("user", QUESTION)
  /\ conversation_history[2] = Message("assistant", RETRY_FAILURE)
  /\ conversation_history[7] = Message("user", FOLLOW_UP)
  /\ conversation_history[8].content = "Sorry, I encountered an error: " \o STUB_ERROR

\* C25: the progress sink is a pure observer: on the same model responses and
\* tool results, run_agent with a sink that does not raise returns the same
\* string, makes the same model calls and tool calls and builds the same
\* conversation as run_agent without a sink
C25_SinkIsPureObserver ==
  o_phase = 2 /\ on_progress = RETURNING_SINK /\ pc = "done" => RunSummary = o_first

\* C25 witness: the second run, with a sink, has ended with an answer after a
\* retry and a tool call, and the sink has received the events of each
C25_Witness ==
  /\ o_phase = 2
  /\ on_progress = RETURNING_SINK
  /\ pc = "done"
  /\ outcome = "answer"
  /\ Len(toolLog) = 1
  /\ \E i \in 1..Len(sunk) : sunk[i].event = "retry"
  /\ \E i \in 1..Len(sunk) : sunk[i] = Event("result", "query", "1 row(s) returned")
  /\ sunk[Len(sunk)] = Event("answer", "", "")

\* the text of f(x1, ..., xn) and of f([x1, ..., xn])
SpreadCall(f, xs) == Unparse(CallNode(NameNode(f), xs))
ListCall(f, xs) == Unparse(CallNode(NameNode(f), <<ListNode(xs)>>))

\* C26: function arguments are flattened before the function is applied: for
\* every allowed function f and every list of numbers xs, f([x1, ..., xn]) and
\* f(x1, ..., xn) give the same result or fail in the same way
C26_ListAndSpreadAgree ==
  \A f \in FUNCTIONS, xs \in NumberLists :
    c_pc # "input" /\ c_expr = ListCall(f, xs) =>
      c_out = calculate(SpreadCall(f, xs))

\* C26 witness: the median of the list [2, 0] was evaluated to a number, the
\* median of the two arguments
C26_Witness ==
  /\ c_pc = "evaluated"
  /\ c_expr = "median([2, 0])"
  /\ c_expr = ListCall("median", <<ConstantNode(2), ConstantNode(0)>>)
  /\ c_out.t = "num"
  /\ c_out = calculate("median(2, 0)")

\* the expression calls f on the numbers xs, as arguments or as one list, and
\* the values are too few: none, or fewer than two for stdev and std
TooFewValues(text) ==
  \E f \in FUNCTIONS, xs \in NumberLists :
    /\ text \in {SpreadCall(f, xs), ListCall(f, xs)}
    /\ \/ Len(xs) = 0
       \/ f \in {"stdev", "std"} /\ Len(xs) < 2

\* C27: every allowed function called with zero arguments after flattening
\* fails with InvalidExpression (the ValueError of calculate), and stdev and
\* std called with fewer than two values after flattening fail with it; such
\* calls never return a number
C27_TooFewValuesIsInvalid ==
  c_pc # "input" /\ TooFewValues(c_expr) => c_out = Raise("ValueError")

\* C27 witness: stdev of a list of one value has failed
C27_Witness ==
  /\ c_pc = "evaluated"
  /\ c_expr = "stdev([2])"
  /\ TooFewValues(c_expr)
  /\ c_out = Raise("ValueError")

RECURSIVE InGrammar(_)
\* the expression is of the grammar: int literals; binary + - * / and unary
\* + - on expressions; calls of the allowed functions, without keywords, on
\* expressions and on list literals of expressions
InGrammar(tree) ==
  CASE tree.node = "Constant" -> tree.literal = "int"
    [] tree.node = "BinOp" ->
         /\ tree.op \in {"Add", "Sub", "Mult", "Div"}
         /\ InGrammar(tree.left)
         /\ InGrammar(tree.right)
    [] tree.node = "UnaryOp" -> tree.op \in {"USub", "UAdd"} /\ InGrammar(tree.operand)
    [] tree.node = "Call" ->
         /\ tree.func.node = "Name"
         /\ Lower(tree.func.id) \in FUNCTIONS
         /\ tree.keywords = <<>>
         /\ \A i \in 1..Len(tree.args) :
              IF tree.args[i].node = "List"
                THEN \A j \in 1..Len(tree.args[i].elts) : InGrammar(tree.args[i].elts[j])
                ELSE InGrammar(tree.args[i])
    [] OTHER -> FALSE

\* C28: the evaluator is a closed interpreter: every expression with a
\* construct outside the grammar (an identifier not on the allow-list, another
\* operator, a boolean or string literal, a keyword argument, a list literal
\* that is not a function argument) fails with InvalidExpression, the
\* ValueError of calculate, and never yields a number
C28_ClosedInterpreter ==
  c_pc # "input" /\ ~InGrammar(ast_parse(c_expr)) => c_out = Raise("ValueError")

\* C29: when two sessions call search_games at once on an empty index, the
\* collection handle is made once, the index is populated once with one entry
\* per game, no entry a session added is deleted, no id the index holds is
\* added again, and every query runs on the whole index
C29_LazyInitOnceAndSafe ==
  /\ Cardinality(CallsOf("get_or_create_collection")) <= 1
  /\ Cardinality(CallsOf("add")) <= 1
  /\ \A i \in CallsOf("delete") : s_log[i].ids = {}
  /\ \A i \in CallsOf("add") : s_log[i].ids = {}
  /\ \A p \in Sessions : s_pc[p] = "done" => s_local[p].results = Ids

\* the reply of the current attempt has failed validation, and the controller
\* has not yet acted on the failure
AttemptFailed == pc = "check" /\ action = None

\* C30: when an attempt fails validation and the model has been called fewer
\* than MAX_RETRIES times in the turn, the conversation grows by exactly two
\* messages, an assistant message with the model's reply to the attempt and
\* then the fixed user message asking for exactly one JSON object; when the
\* failed attempt is the last of the turn, nothing is appended
C30_FailedAttemptAppendsRetryPair ==
  [][AttemptFailed =>
       IF turnCalls < MAX_RETRIES
         THEN /\ Len(messages') = Len(messages) + 2
              /\ SubSeq(messages', 1, Len(messages)) = messages
              /\ messages'[Len(messages) + 1] = Message("assistant", TurnReply(turnCalls))
              /\ messages'[Len(messages) + 2] = Message("user", RETRY_PROMPT)
         ELSE messages' = messages]_vars

\* C30 witness: the three attempts of the first turn have failed; the first two
\* left their retry pairs after the question, the third left nothing
C30_Witness ==
  /\ pc = "after_retries"
  /\ action = None
  /\ turn = 0
  /\ turnCalls = MAX_RETRIES
  /\ Len(messages) = Len(FirstMessages(messages)) + 2 * (MAX_RETRIES - 1)
  /\ messages[Len(messages) - 3] = Message("assistant", TurnReply(1))
  /\ messages[Len(messages) - 2] = Message("user", RETRY_PROMPT)
  /\ messages[Len(messages) - 1] = Message("assistant", TurnReply(2))
  /\ messages[Len(messages)] = Message("user", RETRY_PROMPT)

\* a model output has validated to an action, which is not yet acted on
ActionValidated == pc \in {"check", "after_retries"} /\ action # None

\* C31: within a turn the steps are sequential and single-action: a tool is
\* dispatched only with the non-Answer action that the turn's last model call
\* validated to, no turn dispatches more than one tool, and no model call is
\* made between a successful validation and the dispatch it leads to
C31_SequentialSingleAction ==
  /\ [](Len(toolLog) <= turnsStarted)
  /\ [][toolLog' # toolLog =>
          /\ ActionValidated
          /\ turnCalls >= 1
          /\ action = NormalizerOf[TurnReply(turnCalls)].action
          /\ ActionType(action) # "answer"
          /\ toolLog' = Append(toolLog, action)
          /\ Len(toolLog) = turnsStarted - 1]_vars
  /\ [][ActionValidated =>
          /\ modelCalls' = modelCalls
          /\ \/ ActionValidated' /\ action' = action /\ toolLog' = toolLog
             \/ toolLog' = Append(toolLog, action)
             \/ pc' = "done" /\ outcome' = "answer"]_vars

\* C31 witness: two turns have each dispatched one tool, the first of them after
\* a failed attempt, and the third turn has begun
C31_Witness ==
  /\ pc = "call_llm"
  /\ turn = 2
  /\ turnCalls = 0
  /\ Len(toolLog) = 2
  /\ modelCalls = 3
  /\ NormalizerOf[script[1]].status = "none"

\* valid actions with a brace or an escaped quote inside a string field
QuotedBraceObjects ==
  {"{\"action\": \"answer\", \"text\": \"Use {braces} and \\\"quotes\\\".\"}",
   "{\"action\": \"answer\", \"text\": \"Close } then open {.\"}",
   "{\"action\": \"calculate\", \"expression\": \"len(\\\"}\\\")\"}"}

\* the span the brace-matching loop of lines 115-144 takes, from the first
\* opening brace of the text to the brace that closes it
ExtractedSpan(cs) ==
  LET start == FindChar(cs, "{", 1)
  IN  SubSeq(cs, start, MatchBrace(cs, start, 0, FALSE, FALSE))

\* C32: brace-balanced extraction counts only braces outside quoted strings and
\* honours backslash escapes: for a valid action whose string field holds a
\* brace or an escaped quote, wrapped in prose, the span from the first opening
\* brace to the brace that closes it is the whole action object, neither cut
\* short nor extended, and validate_action returns that object and its text
C32_BracesInStringsNotCounted ==
  \A lead \in LeadTexts : \A object \in QuotedBraceObjects : \A trail \in TrailTexts :
    /\ v_pc # "input"
    /\ FindChar(Chars(lead), "{", 1) = 0
    /\ v_text = lead \o object \o trail
    => /\ Join(ExtractedSpan(Chars(v_text))) = object
       /\ v_out.status = "ok"
       /\ v_out.action = json_loads(Chars(object)).val
       /\ v_out.text = object

\* C32 witness: an action whose string holds an escaped quote and then a closing
\* brace was extracted whole from between two pieces of prose
C32_Witness ==
  /\ v_pc = "validated"
  /\ v_text = "Sure! Here is the action: "
                \o "{\"action\": \"calculate\", \"expression\": \"len(\\\"}\\\")\"}"
                \o " Let me know."
  /\ v_out.status = "ok"
  /\ v_out.text = "{\"action\": \"calculate\", \"expression\": \"len(\\\"}\\\")\"}"
  /\ GetKey(v_out.action, "expression").v = "len(\"}\")"

\* C33: for any valid action wrapped in a fenced code block, with or without a
\* json language tag, validate_action returns the action and a canonical text
\* equal to the fenced content, with no fence marker around it
C33_FencedActionReturned ==
  \A lead \in FenceLeads : \A object \in ObjectTexts \cup {FENCE_IN_STRING} :
    /\ v_pc # "input"
    /\ DirectlyAccepted(object)
    /\ v_text = lead \o object \o FenceTrail
    => /\ v_out.status = "ok"
       /\ v_out.action = json_loads(Chars(object)).val
       /\ v_out.text = object

\* the calls of the model made so far whose reply failed validation
FailedCalls ==
  {n \in 0..(modelCalls - 1) : NormalizerOf[ReplyAt(n)].status = "none"}

\* C34: at every model call the conversation ends with a user message; the
\* messages run_agent adds, from the question on, alternate user, assistant,
\* user, ...; and at a model call the conversation has the seeded messages, the
\* question, and two messages for each failed attempt that was retried and for
\* each turn that dispatched a tool
C34_ConversationAlternates ==
  LET seeded == Len(FirstMessages(messages)) - 1
  IN  /\ \A i \in (seeded + 1)..Len(messages) :
           messages[i].role = IF (i - seeded) % 2 = 1 THEN "user" ELSE "assistant"
      /\ pc = "call_llm" =>
           /\ messages[Len(messages)].role = "user"
           /\ Len(messages) =
                seeded + 1 + 2 * (Cardinality(FailedCalls) + Len(toolLog))

\* C34 witness: a model call is due on a seeded conversation after two retried
\* attempts and one dispatched tool
C34_Witness ==
  /\ pc = "call_llm"
  /\ Len(FirstMessages(messages)) = 3
  /\ Cardinality(FailedCalls) = 2
  /\ Len(toolLog) = 1
  /\ Len(messages) = 9
  /\ messages[9].role = "user"

\* the retry prompts in the conversation
RetryPrompts ==
  {i \in 1..Len(messages) : messages[i] = Message("user", RETRY_PROMPT)}

\* C35: the retry budget is per turn: a turn starts with attempt index 0
\* whatever failed before it, a failed attempt is followed by another model call
\* as long as the turn has made fewer than MAX_RETRIES calls, the run ends by
\* retry exhaustion only after MAX_RETRIES calls in one turn, a run makes at
\* most MAX_TURNS * MAX_RETRIES model calls, and at every model call the
\* conversation holds one retry prompt for every failed attempt so far, those of
\* earlier turns included
C35_RetryBudgetPerTurn ==
  /\ [](modelCalls <= MAX_TURNS * MAX_RETRIES)
  /\ [](turnCalls = 0 => attempt = 0)
  /\ [](outcome = "retry_exhausted" => turnCalls = MAX_RETRIES)
  /\ [](pc = "call_llm" => Cardinality(RetryPrompts) = Cardinality(FailedCalls))
  /\ [][AttemptFailed /\ turnCalls < MAX_RETRIES =>
          pc' = "call_llm" /\ turnCalls' = turnCalls]_vars

\* C35 witness: the run has made MAX_TURNS * MAX_RETRIES model calls, two failed
\* attempts and a tool in every turn, and the retry prompts of all turns are in
\* the conversation
C35_Witness ==
  /\ pc = "done"
  /\ modelCalls = MAX_TURNS * MAX_RETRIES
  /\ Len(toolLog) = MAX_TURNS
  /\ Cardinality(RetryPrompts) = MAX_TURNS * (MAX_RETRIES - 1)

\* the second of the two runs, made with the sink that returns
Observed == o_phase = 2 /\ on_progress = RETURNING_SINK

\* the places of the events of one name in what the sink received
EventsNamed(name) == {i \in 1..Len(sunk) : sunk[i].event = name}

\* the model calls whose reply validate_action has been applied to and
\* run_agent has acted on
SettledCalls ==
  0..((IF pc \in {"validate", "check"} THEN modelCalls - 1 ELSE modelCalls) - 1)

\* C36: progress events match the attempts one to one: the sink receives one
\* thinking event for each model call, emitted before the call, and one retry
\* event, right after the thinking event of its attempt, for each reply that
\* failed validation, the last attempt of a turn included; after that one the
\* run ends with the retry-exhaustion string, no further event emitted
C36_EventsMatchAttempts ==
  Observed =>
    /\ Cardinality(EventsNamed("thinking")) = modelCalls
    /\ Cardinality(EventsNamed("retry")) =
         Cardinality({n \in SettledCalls : FailsValidation(ReplyAt(n))})
    /\ \A i \in EventsNamed("retry") : i > 1 /\ sunk[i - 1].event = "thinking"
    /\ pc = "call_llm" /\ sunk # <<>> => sunk[Len(sunk)].event # "thinking"
    /\ outcome = "retry_exhausted" =>
         /\ result = RETRY_FAILURE
         /\ Len(sunk) >= 2 * MAX_RETRIES
         /\ \A k \in 1..MAX_RETRIES :
              /\ sunk[Len(sunk) - 2 * (MAX_RETRIES - k) - 1] = ThinkingEvent(turn)
              /\ sunk[Len(sunk) - 2 * (MAX_RETRIES - k)] = RetryEvent(k - 1)

\* C36 witness: the observed run ended by retry exhaustion in its second turn;
\* the sink's last event is the retry event of the third attempt
C36_Witness ==
  /\ Observed
  /\ pc = "done"
  /\ outcome = "retry_exhausted"
  /\ turn = 1
  /\ modelCalls = MAX_RETRIES + 1
  /\ Cardinality(EventsNamed("thinking")) = MAX_RETRIES + 1
  /\ Cardinality(EventsNamed("retry")) = MAX_RETRIES
  /\ sunk[Len(sunk)] = Event("retry", "", "Attempt 3 failed, retrying...")

\* the place in the tool log of the action whose tool_call event is at place i
DispatchOf(i) == Cardinality({j \in EventsNamed("tool_call") : j <= i})

\* what execute_action gave for the k-th dispatched action
ToolResult(k) == execute_action(toolLog[k], tools[ActionType(toolLog[k])])

\* C37: for every dispatched action the events hold one tool_call event naming
\* the tool, followed at once by one result or error event naming the same
\* tool, error exactly when the tool result has is_error true, and nothing but a
\* thinking event after it; and an answer event is the last event of the run
C37_ToolEventsPaired ==
  Observed =>
    /\ Cardinality(EventsNamed("tool_call")) = Len(toolLog)
    /\ Cardinality(EventsNamed("result") \cup EventsNamed("error")) = Len(toolLog)
    /\ \A i \in EventsNamed("tool_call") :
         /\ sunk[i].tool = ActionType(toolLog[DispatchOf(i)])
         /\ i + 1 <= Len(sunk)
         /\ sunk[i + 1].tool = sunk[i].tool
         /\ sunk[i + 1].event =
              IF ToolResult(DispatchOf(i)).is_error THEN "error" ELSE "result"
         /\ i + 2 <= Len(sunk) => sunk[i + 2].event = "thinking"
    /\ \A i \in EventsNamed("answer") : i = Len(sunk)

RECURSIVE Classes(_, _, _)
\* for each character of the text from index i on, what it is to the repair
\* pass: a character outside a string, a quote, the two halves of a backslash
\* escape in a string, or another character inside a string.  The characters
\* up to the next quote (in a string: or backslash) are classed as one run
Classes(cs, i, in_string) ==
  LET j == NextIndex(cs, i, IF in_string THEN {"\"", "\\"} ELSE {"\""}, TRUE)
      run == [k \in 1..(j - i) |-> IF in_string THEN "inside" ELSE "outside"]
  IN  IF j > Len(cs) THEN run
      ELSE IF cs[j] = "\"" THEN run \o <<"quote">> \o Classes(cs, j + 1, ~in_string)
      ELSE IF j < Len(cs) THEN run \o <<"escape", "escaped">> \o Classes(cs, j + 2, in_string)
      ELSE run \o <<"inside">>

\* what the repair pass is to write for a character of a class: the escape for
\* a control character inside a string, the character itself for all others
Repaired(c, class) ==
  IF class = "inside" /\ c \in {"\n", "\r", "\t"}
    THEN CASE c = "\n" -> "\\n" [] c = "\r" -> "\\r" [] c = "\t" -> "\\t"
    ELSE c

\* C38: the control-character repair pass is idempotent and changes nothing
\* outside quoted strings: for every text s, repair(repair(s)) = repair(s), and
\* every character outside a quoted string, every quote and every backslash
\* escape pair of s is copied to the output unchanged, in its place
C38_RepairIdempotentAndLocal ==
  v_pc # "input" =>
    LET cs == Chars(v_text)
        once == fix_json_newlines(cs)
        classes == Classes(cs, 1, FALSE)
    IN  /\ fix_json_newlines(once) = once
        /\ Join(once) = Join([i \in 1..Len(cs) |-> Repaired(cs[i], classes[i])])

\* C38 witness: a text with a tab and a newline outside a string and a newline
\* in a string left open went through the pass; only the last was escaped
C38_Witness ==
  /\ v_pc = "validated"
  /\ v_text = "x\ty\n \"open\nend"
  /\ Join(fix_json_newlines(Chars(v_text))) = "x\ty\n \"open\\nend"
  /\ v_out.status = "none"

\* the messages that stood in the conversation before the question
SeededMessages == SubSeq(messages, 1, Len(FirstMessages(messages)) - 1)

\* C39: run_agent never modifies the caller's conversation history: at every
\* step and on every outcome the caller's list is what it was when run_agent
\* was called, the messages the conversation was seeded with, and what the run
\* appends goes to the run's own sequence only
C39_CallerHistoryUntouched ==
  /\ [](conversation_history \in Histories /\ conversation_history = SeededMessages)
  /\ [][conversation_history' = conversation_history]_vars

\* C39 witness: a run seeded with one earlier question and answer has ended after
\* a retry pair and a tool pair were appended; the caller's list has its two
\* messages
C39_Witness ==
  /\ pc = "done"
  /\ Len(conversation_history) = 2
  /\ Len(messages) = 7
  /\ Len(toolLog) = 1
  /\ outcome \in {"answer", "raised"}

====
